---- MODULE Spec2Model ----
(***************************************************************************)
(* Clustering-and-ranking engine of the "yesterday" news brief:            *)
(*   - lib/pipeline/cluster.ts : vectorizer, cosine similarity and the     *)
(*     incremental clusterer (buildWorkingClusters);                       *)
(*   - app/api/admin/rank/route.ts : the Ranker (rankClustersForWindowDate)*)
(*   - the candidates reorder route (POST): manual reorder of the ranked   *)
(*     candidates of a window.                                             *)
(*                                                                         *)
(* Two specifications share the module:                                    *)
(*   SpecCluster : one run of buildWorkingClusters, one loop iteration per *)
(*                 step, over article lists drawn from a small corpus;     *)
(*   Spec        : the persisted tables under ranking runs and reorder     *)
(*                 calls of a single writer.                               *)
(***************************************************************************)
EXTENDS Integers, Sequences, FiniteSets, TLC

VARIABLES
    \* ---- buildWorkingClusters (cluster.ts:197-219) ----
    articles,           \* the `articles` parameter: Seq of ClusterArticle
    cursor,             \* position of the for-of loop (1-based; Len+1 = returned)
    clusters,           \* the local `clusters`: Seq of WorkingCluster
    best,               \* `{ index, similarity }` of the last iteration (line 201)
    \* ---- persisted tables (supabase/week2_pipeline.sql) ----
    story_clusters,     \* id -> [window_date, score]
    cluster_candidates, \* set of rows [id, window_date, cluster_id, rank]
    dataset,            \* the articles, cluster_articles and feed_sources tables
    nextRowId,          \* next generated cluster_candidates.id
    ops,                \* number of requests served so far
    ranked,             \* the local `ranked` of the last ranking run
    response,           \* what the last request returned to its caller
    \* ---- briefs (generate-draft, cron/nightly, admin-ai-draft) ----
    daily_briefs,       \* brief_date -> [id, status]
    brief_stories,      \* <<brief_id, position>> -> [id, cluster_id, headline]
    nightly,            \* the nightly run: its window date and the steps it took
    runs,               \* the runs in flight: position and locals of each
    drafting            \* the locals of one draftBriefWithAi call

clusterVars == <<articles, cursor, clusters, best>>
storeVars   == <<story_clusters, cluster_candidates, dataset, nextRowId, ops,
                 ranked, response>>
jobVars     == <<daily_briefs, brief_stories, nightly, runs, drafting>>
vars        == <<articles, cursor, clusters, best,
                 story_clusters, cluster_candidates, dataset, nextRowId, ops,
                 ranked, response,
                 daily_briefs, brief_stories, nightly, runs, drafting>>

\* no brief is stored and no nightly run, concurrent run or drafting call is
\* under way
JobsIdle ==
    /\ daily_briefs = <<>>
    /\ brief_stories = <<>>
    /\ nightly = <<>>
    /\ runs = <<>>
    /\ drafting = <<>>

(***************************************************************************)
(* Bounds of the model.                                                    *)
(***************************************************************************)
MaxArticles == 4

(***************************************************************************)
(* Generic helpers.                                                        *)
(***************************************************************************)
Range(s) == {s[i] : i \in DOMAIN s}

RECURSIVE SumOver(_, _)
SumOver(f, S) ==
    IF S = {} THEN 0
    ELSE LET k == CHOOSE k \in S : TRUE IN f[k] + SumOver(f, S \ {k})

(***************************************************************************)
(* Text normalizer and vectorizer.  A normalized text is kept as the list  *)
(* of its words, i.e. the result of `text.split(" ")` at cluster.ts:117.   *)
(***************************************************************************)
STOP_WORDS ==
    {"a", "an", "and", "are", "as", "at", "be", "by", "for", "from", "has",
     "he", "in", "is", "it", "its", "of", "on", "that", "the", "to", "was",
     "were", "will", "with"}

EndsWith(token, suffix) ==
    /\ Len(token) >= Len(suffix)
    /\ SubSeq(token, Len(token) - Len(suffix) + 1, Len(token)) = suffix

DropLast(token, n) == SubSeq(token, 1, Len(token) - n)

stemToken(token) ==
    IF EndsWith(token, "'s") THEN DropLast(token, 2)
    ELSE IF Len(token) > 6 /\ EndsWith(token, "ing") THEN DropLast(token, 3)
    ELSE IF Len(token) > 5 /\ EndsWith(token, "ed") THEN DropLast(token, 2)
    ELSE IF Len(token) > 5 /\ EndsWith(token, "es") THEN DropLast(token, 2)
    ELSE IF Len(token) > 4 /\ EndsWith(token, "s") THEN DropLast(token, 1)
    ELSE token

\* A TokenVector (Map<string, number>) is a function whose domain is the key
\* set of the map; `size` is the cardinality of the domain.
EmptyVector == [t \in {} |-> 0]

Get(vector, token) == IF token \in DOMAIN vector THEN vector[token] ELSE 0

\* vector.set(token, (vector.get(token) ?? 0) + value)
SetAdd(vector, token, value) ==
    [t \in DOMAIN vector \cup {token} |->
        IF t = token THEN Get(vector, token) + value ELSE vector[t]]

RECURSIVE CountTokens(_, _)
CountTokens(tokens, vector) ==
    IF tokens = <<>> THEN vector
    ELSE CountTokens(Tail(tokens), SetAdd(vector, Head(tokens), 1))

toVector(words) ==
    LET stemmed == [i \in DOMAIN words |-> stemToken(words[i])]
        tokens  == SelectSeq(stemmed, LAMBDA t : Len(t) >= 2 /\ t \notin STOP_WORDS)
    IN  CountTokens(tokens, EmptyVector)

(***************************************************************************)
(* Cosine similarity.  The quotient dot / sqrt(aNorm * bNorm) is kept      *)
(* exactly as the pair (dot, norm = aNorm * bNorm); the two early returns  *)
(* of 0 are the pair (0, 1).  All components are non-negative, so two      *)
(* similarities compare as their squares do.                               *)
(***************************************************************************)
ZeroSimilarity == [dot |-> 0, norm |-> 1]

\* mutation of cosineSimilarity: the norm of b is left out of the quotient
cosineSimilarityOneNorm(a, b) ==
    IF Cardinality(DOMAIN a) = 0 \/ Cardinality(DOMAIN b) = 0 THEN ZeroSimilarity
    ELSE
        LET aNorm == SumOver([t \in DOMAIN a |-> a[t] * a[t]], DOMAIN a)
            bNorm == SumOver([t \in DOMAIN b |-> b[t] * b[t]], DOMAIN b)
            dot   == SumOver([t \in DOMAIN a |-> a[t] * Get(b, t)], DOMAIN a)
        IN  IF aNorm = 0 \/ bNorm = 0 THEN ZeroSimilarity
            ELSE [dot |-> dot, norm |-> aNorm * aNorm]

cosineSimilarity(a, b) ==
    IF Cardinality(DOMAIN a) = 0 \/ Cardinality(DOMAIN b) = 0 THEN ZeroSimilarity
    ELSE
        LET aNorm == SumOver([t \in DOMAIN a |-> a[t] * a[t]], DOMAIN a)
            bNorm == SumOver([t \in DOMAIN b |-> b[t] * b[t]], DOMAIN b)
            dot   == SumOver([t \in DOMAIN a |-> a[t] * Get(b, t)], DOMAIN a)
        IN  IF aNorm = 0 \/ bNorm = 0 THEN ZeroSimilarity
            ELSE [dot |-> dot, norm |-> aNorm * bNorm]

\* s > t, s >= t and s = t on similarities
SimGreater(s, t) == s.dot * s.dot * t.norm > t.dot * t.dot * s.norm
SimAtLeast(s, t) == ~SimGreater(t, s)
SimEqual(s, t)   == s.dot * s.dot * t.norm = t.dot * t.dot * s.norm

\* CLUSTER_SIMILARITY_THRESHOLD = 0.32 = 32 / 100
THRESHOLD_NUM == 32
THRESHOLD_DEN == 100

\* similarity >= CLUSTER_SIMILARITY_THRESHOLD
MeetsThreshold(s) ==
    s.dot * s.dot * THRESHOLD_DEN * THRESHOLD_DEN
        >= THRESHOLD_NUM * THRESHOLD_NUM * s.norm

\* similarity = 1.0 exactly
IsOne(s) == s.dot * s.dot = s.norm

\* mutant of addToVectorSum: `target.set(token, value)`, the old count is lost
addToVectorSumOverwrite(target, source) ==
    [t \in DOMAIN target \cup DOMAIN source |->
        IF t \in DOMAIN source THEN source[t] ELSE target[t]]

\* addToVectorSum(target, source): returns the updated target
RECURSIVE AddEntries(_, _, _)
AddEntries(target, source, keys) ==
    IF keys = {} THEN target
    ELSE LET token == CHOOSE token \in keys : TRUE
         IN  AddEntries(SetAdd(target, token, source[token]), source, keys \ {token})

addToVectorSum(target, source) == AddEntries(target, source, DOMAIN source)

\* mutant of findBestClusterIndex: `similarity >= bestSimilarity`, so the last
\* of several equally similar clusters wins
RECURSIVE ScanClustersLastTie(_, _, _, _)
ScanClustersLastTie(article, cs, index, acc) ==
    IF index > Len(cs) THEN acc
    ELSE
        LET similarity == cosineSimilarity(article.vector, cs[index].vectorSum)
        IN  IF SimAtLeast(similarity, acc.similarity)
            THEN ScanClustersLastTie(article, cs, index + 1,
                                     [index |-> index, similarity |-> similarity])
            ELSE ScanClustersLastTie(article, cs, index + 1, acc)

findBestClusterIndexLastTie(article, cs) ==
    ScanClustersLastTie(article, cs, 1, [index |-> 0, similarity |-> [dot |-> 0, norm |-> 1]])

(***************************************************************************)
(* findBestClusterIndex: indexes are 1-based here, 0 stands for the        *)
(* source's -1 ("no cluster").                                             *)
(***************************************************************************)
RECURSIVE ScanClusters(_, _, _, _)
ScanClusters(article, cs, index, acc) ==
    IF index > Len(cs) THEN acc
    ELSE
        LET similarity == cosineSimilarity(article.vector, cs[index].vectorSum)
        IN  IF SimGreater(similarity, acc.similarity)
            THEN ScanClusters(article, cs, index + 1,
                              [index |-> index, similarity |-> similarity])
            ELSE ScanClusters(article, cs, index + 1, acc)

findBestClusterIndex(article, cs) ==
    ScanClusters(article, cs, 1, [index |-> 0, similarity |-> ZeroSimilarity])

(***************************************************************************)
(* The articles a clustering run may be given.  Corpus lists normalized    *)
(* texts (as word lists); an input is any list of at most MaxArticles      *)
(* articles whose text is drawn from the corpus, the article identifier    *)
(* being the position in the list.                                         *)
(***************************************************************************)
Repeat(word, n) == [i \in 1..n |-> word]

Corpus ==
    <<  <<"to", "be">>,                                         \* stop words only
        <<"rates">>,
        <<"bakery">>,
        <<"rates", "bakery">>,
        Repeat("rate", 2) \o Repeat("fed", 5),
        Repeat("rate", 2) \o Repeat("bakery", 3),
        Repeat("fed", 3) \o Repeat("rates", 4),
        Repeat("rate", 2) \o Repeat("award", 4) \o Repeat("wins", 2) \o <<"local">>
    >>

ClusterArticle(id, words) ==
    [id |-> id, title |-> words, vector |-> toVector(words)]

ArticleLists ==
    UNION { [1..n -> 1..Len(Corpus)] : n \in 0..MaxArticles }

ToArticles(choice) ==
    [i \in DOMAIN choice |-> ClusterArticle(i, Corpus[choice[i]])]

(***************************************************************************)
(* buildWorkingClusters, one iteration of `for (const article of articles)`*)
(* per step.                                                               *)
(***************************************************************************)
NoBest == [index |-> 0, similarity |-> ZeroSimilarity]

InitCluster ==
    /\ \E choice \in ArticleLists : articles = ToArticles(choice)
    /\ cursor = 1
    /\ clusters = <<>>
    /\ best = NoBest
    /\ JobsIdle
    /\ story_clusters = <<>>
    /\ cluster_candidates = {}
    /\ dataset = <<>>
    /\ nextRowId = 1
    /\ ops = 0
    /\ ranked = <<>>
    /\ response = <<>>

\* mutant of NewCluster: line 211 forgotten, the new cluster's sum stays empty
NewClusterNoSum(article) ==
    [members |-> <<article>>, vectorSum |-> [t \in {} |-> 0]]

\* lines 210-215: `vectorSum` starts empty and takes the article's vector
NewCluster(article) ==
    [members   |-> <<article>>,
     vectorSum |-> addToVectorSum(EmptyVector, article.vector)]

\* mutant of JoinCluster: the `continue` of line 207 is missing, so the article
\* also starts a cluster of its own
JoinClusterNoContinue ==
    /\ cursor <= Len(articles)
    /\ LET article == articles[cursor]
           found   == findBestClusterIndex(article, clusters)
       IN  /\ found.index >= 1
           /\ MeetsThreshold(found.similarity)
           /\ clusters' =
                Append([clusters EXCEPT ![found.index] =
                            [members   |-> Append(@.members, article),
                             vectorSum |-> addToVectorSum(@.vectorSum, article.vector)]],
                       [members   |-> <<article>>,
                        vectorSum |-> addToVectorSum([t \in {} |-> 0], article.vector)])
           /\ best' = found
    /\ cursor' = cursor + 1
    /\ UNCHANGED <<articles, storeVars, jobVars>>

\* lines 203-207: the article joins clusters[index]
JoinCluster ==
    /\ cursor <= Len(articles)
    /\ LET article == articles[cursor]
           found   == findBestClusterIndex(article, clusters)
       IN  /\ found.index >= 1
           /\ MeetsThreshold(found.similarity)
           /\ clusters' =
                [clusters EXCEPT ![found.index] =
                    [members   |-> Append(@.members, article),
                     vectorSum |-> addToVectorSum(@.vectorSum, article.vector)]]
           /\ best' = found
    /\ cursor' = cursor + 1
    /\ UNCHANGED <<articles, storeVars, jobVars>>

\* lines 210-215: the article starts a new cluster
StartCluster ==
    /\ cursor <= Len(articles)
    /\ LET article == articles[cursor]
           found   == findBestClusterIndex(article, clusters)
       IN  /\ ~(found.index >= 1 /\ MeetsThreshold(found.similarity))
           /\ clusters' = Append(clusters, NewCluster(article))
           /\ best' = found
    /\ cursor' = cursor + 1
    /\ UNCHANGED <<articles, storeVars, jobVars>>

NextCluster == JoinCluster \/ StartCluster

SpecCluster == InitCluster /\ [][NextCluster]_vars

\* the run has returned `clusters`
Returned == cursor = Len(articles) + 1

(***************************************************************************)
(* Properties of buildWorkingClusters (checked under SpecCluster).         *)
(***************************************************************************)
\* positions (cluster, slot) at which the article with identifier id is stored
Places(id) ==
    {<<k, j>> \in (1..Len(clusters)) \X (1..MaxArticles + 1) :
        j <= Len(clusters[k].members) /\ clusters[k].members[j].id = id}

ClusterOf(id) == (CHOOSE p \in Places(id) : TRUE)[1]

\* element-wise sum of the members' vectors, recomputed from scratch
SumOfMembers(members) ==
    LET keys == UNION {DOMAIN members[j].vector : j \in DOMAIN members}
    IN  [t \in keys |->
            SumOver([j \in DOMAIN members |-> Get(members[j].vector, t)],
                    DOMAIN members)]

\* C1: the clusters partition the articles processed so far: every processed
\* article is stored at exactly one place, every member is a processed article
\* of the input, and no cluster is empty.  When the run has returned, the
\* processed articles are the whole input.
C1_Partition ==
    /\ \A id \in 1..(cursor - 1) : Cardinality(Places(id)) = 1
    /\ \A k \in DOMAIN clusters :
        /\ Len(clusters[k].members) >= 1
        /\ \A j \in DOMAIN clusters[k].members :
            LET m == clusters[k].members[j]
            IN  m.id \in 1..(cursor - 1) /\ m = articles[m.id]

C1_Witness ==
    /\ Returned
    /\ Len(articles) >= 4
    /\ Len(clusters) >= 2
    /\ \E k \in DOMAIN clusters : Len(clusters[k].members) >= 2

\* C2: after every step each cluster's vectorSum is the element-wise sum of the
\* token vectors of its current members.
C2_VectorSum ==
    \A k \in DOMAIN clusters :
        clusters[k].vectorSum = SumOfMembers(clusters[k].members)

C2_Witness ==
    /\ best.index >= 1
    /\ MeetsThreshold(best.similarity)
    /\ \E k \in DOMAIN clusters :
        /\ Len(clusters[k].members) >= 3
        /\ \E t \in DOMAIN clusters[k].vectorSum : clusters[k].vectorSum[t] >= 7

\* C3 as stated: any two processed articles with identical normalized text have
\* cosine similarity 1.0 and are in the same cluster.
C3_Original ==
    \A i, j \in 1..(cursor - 1) :
        (i < j /\ articles[i].title = articles[j].title) =>
            /\ IsOne(cosineSimilarity(articles[i].vector, articles[j].vector))
            /\ ClusterOf(i) = ClusterOf(j)

\* C3 amended: two articles with identical normalized text whose token vector
\* is not empty have cosine similarity 1.0, and when the second is processed
\* right after the first they are in the same cluster.
C3_IdenticalAdjacent ==
    \A i \in 1..(cursor - 2) :
        (/\ articles[i].title = articles[i + 1].title
         /\ DOMAIN articles[i].vector # {}) =>
            /\ IsOne(cosineSimilarity(articles[i].vector, articles[i + 1].vector))
            /\ ClusterOf(i) = ClusterOf(i + 1)

C3_Witness ==
    /\ cursor >= 4
    /\ Len(clusters) >= 2
    /\ articles[cursor - 2].title = articles[cursor - 1].title
    /\ DOMAIN articles[cursor - 1].vector # {}
    /\ ClusterOf(cursor - 1) = ClusterOf(cursor - 2)
    /\ Len(clusters[ClusterOf(cursor - 1)].members) >= 3

\* two articles with the same non-empty text end in different clusters
\* although both were processed (the greedy pass is order dependent)
C3_Drift ==
    \E i, j \in 1..(cursor - 1) :
        /\ i < j
        /\ articles[i].title = articles[j].title
        /\ DOMAIN articles[i].vector # {}
        /\ ClusterOf(i) # ClusterOf(j)

\* C4: each step appends the article to the lowest-index cluster among those
\* of maximal similarity iff that similarity is at least 0.32, and otherwise
\* appends a new single-member cluster after the existing ones.
C4_Step ==
    LET article == articles[cursor]
        sims    == [k \in DOMAIN clusters |->
                        cosineSimilarity(article.vector, clusters[k].vectorSum)]
        maximal == {k \in DOMAIN clusters :
                        \A j \in DOMAIN clusters : SimAtLeast(sims[k], sims[j])}
        lowest  == CHOOSE k \in maximal : \A j \in maximal : k <= j
    IN  IF maximal # {} /\ MeetsThreshold(sims[lowest])
        THEN /\ Len(clusters') = Len(clusters)
             /\ clusters'[lowest].members = Append(clusters[lowest].members, article)
             /\ \A k \in DOMAIN clusters :
                    k # lowest => clusters'[k] = clusters[k]
        ELSE /\ Len(clusters') = Len(clusters) + 1
             /\ clusters'[Len(clusters) + 1].members = <<article>>
             /\ \A k \in DOMAIN clusters : clusters'[k] = clusters[k]

C4_GreedyAssignment == [][cursor' = cursor + 1 => C4_Step]_vars

\* a join at a similarity of exactly 0.32
C4_Witness ==
    /\ cursor >= 2
    /\ best.index >= 1
    /\ best.similarity.dot * best.similarity.dot * 625 = 64 * best.similarity.norm
    /\ ClusterOf(cursor - 1) = best.index
    /\ Len(clusters[best.index].members) >= 2

(***************************************************************************)
(* ======================  Persisted tables  ============================  *)
(* Nullable columns hold <<>> (null) or <<value>>.  Timestamps are whole   *)
(* hours since 2024-03-01T00:00:00Z.  Scores are kept in halves            *)
(* (score2 = 2 * score): every score the Ranker writes is a multiple of    *)
(* 0.5, which `toFixed(4)` leaves unchanged.                               *)
(***************************************************************************)
NULL == <<>>

IsNull(v) == v = <<>>

Val(v) == v[1]

MaxSmall == 3           \* small cluster counts of the first window: 0..MaxSmall
MaxOtherClusters == 1   \* clusters of the second window
MaxOps == 2             \* requests served in one behaviour

TOP_LIMIT == 30
MAX_REORDER == 15
TOP_PUBLISHERS == 5
HOURS_PER_DAY == 24
RECENCY_HOURS == 6

\* cluster counts of the first window: the small ones and those around the
\* two limits of the candidate list
ClusterCounts ==
    (0..MaxSmall) \cup {MAX_REORDER, MAX_REORDER + 1, TOP_LIMIT, TOP_LIMIT + 1}

MaxClusters == TOP_LIMIT + 1

WindowA == "2024-03-01"
WindowB == "2024-03-02"
WindowDates == {WindowA, WindowB}

Digits == {"0", "1", "2", "3", "4", "5", "6", "7", "8", "9"}

DigitValue(ch) ==
    CASE ch = "0" -> 0 [] ch = "1" -> 1 [] ch = "2" -> 2 [] ch = "3" -> 3
      [] ch = "4" -> 4 [] ch = "5" -> 5 [] ch = "6" -> 6 [] ch = "7" -> 7
      [] ch = "8" -> 8 [] ch = "9" -> 9

CharAt(str, i) == SubSeq(str, i, i)

\* DATE_PATTERN = /^\d{4}-\d{2}-\d{2}$/
DATE_PATTERN(str) ==
    /\ Len(str) = 10
    /\ \A i \in {1, 2, 3, 4, 6, 7, 9, 10} : CharAt(str, i) \in Digits
    /\ CharAt(str, 5) = "-"
    /\ CharAt(str, 8) = "-"

\* String.prototype.trim (the only white space in the model is the blank)
RECURSIVE Trim(_)
Trim(str) ==
    IF Len(str) = 0 THEN str
    ELSE IF CharAt(str, 1) = " " THEN Trim(SubSeq(str, 2, Len(str)))
    ELSE IF CharAt(str, Len(str)) = " " THEN Trim(SubSeq(str, 1, Len(str) - 1))
    ELSE str

\* toWindowBoundsUtc, for the dates of March 2024
toWindowBoundsUtc(windowDate) ==
    LET day       == 10 * DigitValue(CharAt(windowDate, 9))
                        + DigitValue(CharAt(windowDate, 10))
        startDate == (day - 1) * HOURS_PER_DAY
        endDate   == startDate + HOURS_PER_DAY
    IN  [start |-> startDate, end |-> endDate,
         recencyStart |-> endDate - RECENCY_HOURS]

(***************************************************************************)
(* Sequences of rows.                                                      *)
(***************************************************************************)
Min(S) == CHOOSE x \in S : \A y \in S : x <= y

RECURSIVE Ascending(_)
Ascending(S) == IF S = {} THEN <<>> ELSE <<Min(S)>> \o Ascending(S \ {Min(S)})

Reverse(seq) == [i \in 1..Len(seq) |-> seq[Len(seq) + 1 - i]]

Take(seq, n) == SubSeq(seq, 1, IF n < Len(seq) THEN n ELSE Len(seq))

\* A select without ORDER BY returns its rows in an order the store picks:
\* here ascending or descending by key, the same direction for every select
\* of one run.
RowOrders(S) ==
    {[ascending |-> TRUE, ids |-> Ascending(S)],
     [ascending |-> FALSE, ids |-> Reverse(Ascending(S))]}

(***************************************************************************)
(* publisherName                                                           *)
(***************************************************************************)
publisherName(article, sourceNameById) ==
    LET articlePublisher == IF IsNull(article.publisher) THEN ""
                            ELSE Trim(Val(article.publisher))
    IN  IF articlePublisher # "" THEN articlePublisher
        ELSE IF /\ ~IsNull(article.source_id)
                /\ Val(article.source_id) \in DOMAIN sourceNameById
                /\ Trim(sourceNameById[Val(article.source_id)]) # ""
             THEN Trim(sourceNameById[Val(article.source_id)])
        ELSE "Unknown Publisher"

(***************************************************************************)
(* rankClusters                                                            *)
(***************************************************************************)
\* mutation of CountPublisher: a publisher seen again is not counted again
CountPublisherOnce(counts, name) ==
    IF \E i \in DOMAIN counts : counts[i].name = name
    THEN counts
    ELSE Append(counts, [name |-> name, count |-> 1])

\* publisherCounts.set(publisher, (publisherCounts.get(publisher) ?? 0) + 1):
\* a Map keeps its keys in insertion order, so the map is a list of entries
CountPublisher(counts, name) ==
    IF \E i \in DOMAIN counts : counts[i].name = name
    THEN [i \in DOMAIN counts |->
            IF counts[i].name = name
            THEN [name |-> name, count |-> counts[i].count + 1]
            ELSE counts[i]]
    ELSE Append(counts, [name |-> name, count |-> 1])

\* mutation of IsRecent: the start of the recency span is excluded
IsRecentStrict(publishedAt, recencyStart, dayEnd) ==
    /\ ~IsNull(publishedAt)
    /\ Val(publishedAt) > recencyStart
    /\ Val(publishedAt) < dayEnd

\* lines 146-150: publishedMs >= recencyStartMs && publishedMs < dayEndMs
IsRecent(publishedAt, recencyStart, dayEnd) ==
    /\ ~IsNull(publishedAt)
    /\ Val(publishedAt) >= recencyStart
    /\ Val(publishedAt) < dayEnd

RECURSIVE TallyArticles(_, _, _, _, _)
TallyArticles(rows, sourceNameById, recencyStart, dayEnd, acc) ==
    IF rows = <<>> THEN acc
    ELSE
        LET article     == Head(rows)
            publisher   == publisherName(article, sourceNameById)
            publishedAt == article.published_at
            recent      == IsRecent(publishedAt, recencyStart, dayEnd)
        IN  TallyArticles(Tail(rows), sourceNameById, recencyStart, dayEnd,
                [publisherCounts |-> CountPublisher(acc.publisherCounts, publisher),
                 recency         |-> acc.recency + (IF recent THEN 1 ELSE 0)])

\* [...publisherCounts.entries()].sort((a, b) => b[1] - a[1]): stable
RECURSIVE InsertPublisher(_, _)
InsertPublisher(sorted, entry) ==
    IF sorted = <<>> THEN <<entry>>
    ELSE IF entry.count > sorted[Len(sorted)].count
         THEN Append(InsertPublisher(SubSeq(sorted, 1, Len(sorted) - 1), entry),
                     sorted[Len(sorted)])
         ELSE Append(sorted, entry)

RECURSIVE SortPublishers(_, _)
SortPublishers(entries, sorted) ==
    IF entries = <<>> THEN sorted
    ELSE SortPublishers(Tail(entries), InsertPublisher(sorted, Head(entries)))

\* breadth * 3 + volume + recency * 0.5, in halves
Score2(breadth, volume, recency) == breadth * 6 + volume * 2 + recency

\* one iteration of `for (const cluster of clusters)` (lines 131-172)
RankOne(cluster, memberships, articlesById, sourceNameById, recencyStart, dayEnd) ==
    LET members  == SelectSeq(memberships, LAMBDA m : m.cluster_id = cluster.id)
        present  == SelectSeq(members, LAMBDA m : m.article_id \in DOMAIN articlesById)
        rows     == [i \in DOMAIN present |-> articlesById[present[i].article_id]]
        volume   == Len(rows)
        tally    == TallyArticles(rows, sourceNameById, recencyStart, dayEnd,
                                  [publisherCounts |-> <<>>, recency |-> 0])
        breadth  == Len(tally.publisherCounts)
        fallbackLabel == IF rows # <<>> THEN rows[1].title ELSE "Unlabeled cluster"
        label    == IF ~IsNull(cluster.label) /\ Trim(Val(cluster.label)) # ""
                    THEN Trim(Val(cluster.label)) ELSE fallbackLabel
    IN  [clusterId       |-> cluster.id,
         label           |-> label,
         score           |-> Score2(breadth, volume, tally.recency),
         volume          |-> volume,
         breadth         |-> breadth,
         recency         |-> tally.recency,
         publisherCounts |-> tally.publisherCounts,
         topPublishers   |-> Take(SortPublishers(tally.publisherCounts, <<>>),
                                  TOP_PUBLISHERS)]

\* mutation of RankedBefore: the volume does not break ties
RankedBeforeScoreOnly(a, b) == b.score - a.score < 0

\* comparator of ranked.sort: negative result of
\* `b.score - a.score || b.volume - a.volume`, i.e. a goes before b
RankedBefore(a, b) ==
    IF b.score - a.score # 0 THEN b.score - a.score < 0
    ELSE b.volume - a.volume < 0

\* Array.prototype.sort is stable: an element is moved in front of those it
\* must precede and stays behind all others
RECURSIVE InsertRanked(_, _)
InsertRanked(sorted, item) ==
    IF sorted = <<>> THEN <<item>>
    ELSE IF RankedBefore(item, sorted[Len(sorted)])
         THEN Append(InsertRanked(SubSeq(sorted, 1, Len(sorted) - 1), item),
                     sorted[Len(sorted)])
         ELSE Append(sorted, item)

RECURSIVE SortRanked(_, _)
SortRanked(items, sorted) ==
    IF items = <<>> THEN sorted
    ELSE SortRanked(Tail(items), InsertRanked(sorted, Head(items)))

rankClusters(clusterRows, memberships, articlesById, sourceNameById, recencyStart, dayEnd) ==
    SortRanked([i \in DOMAIN clusterRows |->
                    RankOne(clusterRows[i], memberships, articlesById,
                            sourceNameById, recencyStart, dayEnd)],
               <<>>)

(***************************************************************************)
(* The content of the tables before the first request: each window has     *)
(* been clustered (story_clusters and cluster_articles exist, the score is *)
(* the member count, cluster.ts:303) and not yet ranked.  The articles of  *)
(* a cluster follow one of the Shapes; ingestion may have rewritten an     *)
(* article since the clustering run (upsert on url), so a member may carry *)
(* a timestamp outside the window or none.                                 *)
(***************************************************************************)
Art(publisher, source_id, at) ==
    [publisher |-> publisher, source_id |-> source_id, at |-> at]

\* members of one cluster; `at` is in hours after the start of the window
Shapes ==
    <<  << Art(NULL, <<"s2">>, <<5>>), Art(NULL, <<"s3">>, <<6>>),
           Art(<<"BBC">>, <<"s1">>, <<7>>) >>,
        << Art(<<"AP">>, NULL, <<10>>) >>,
        << Art(<<"AP">>, NULL, <<17>>), Art(<<"BBC">>, NULL, <<-1>>) >>,
        << Art(<<" AP ">>, NULL, <<18>>) >>,
        << Art(NULL, <<"s1">>, <<23>>), Art(<<"  ">>, NULL, <<2>>) >>,
        << Art(<<"AP">>, NULL, <<24>>), Art(<<"AP">>, NULL, NULL) >>,
        << Art(<<"AP">>, NULL, <<19>>), Art(<<"AP ">>, NULL, <<20>>) >>,
        << Art(<<"AP">>, NULL, <<1>>), Art(<<"AP">>, NULL, <<2>>),
           Art(<<"AP">>, NULL, <<3>>) >>
    >>

FeedSources == [s \in {"s1", "s2", "s3"} |->
                    CASE s = "s1" -> "Reuters" [] s = "s2" -> "  " [] s = "s3" -> "Reuters "]

ShapeOf(c) == Shapes[(c % Len(Shapes)) + 1]

\* clusters 1..n belong to WindowA, MaxClusters+1 .. MaxClusters+MaxOtherClusters
\* to WindowB
ClusterIds(n) == (1..n) \cup ((MaxClusters + 1)..(MaxClusters + MaxOtherClusters))

WindowOfCluster(c) == IF c <= MaxClusters THEN WindowA ELSE WindowB

ArticleIdsOf(c) == {c * 10 + j : j \in 1..Len(ShapeOf(c))}

MakeDataset(n) ==
    LET ids == UNION {ArticleIdsOf(c) : c \in ClusterIds(n)}
    IN  [articles |->
            [id \in ids |->
                LET c == id \div 10
                    a == ShapeOf(c)[id % 10]
                IN  [id           |-> id,
                     title        |-> "title " \o ToString(id),
                     publisher    |-> a.publisher,
                     source_id    |-> a.source_id,
                     published_at |->
                        IF IsNull(a.at) THEN NULL
                        ELSE <<toWindowBoundsUtc(WindowOfCluster(c)).start + Val(a.at)>>]],
         cluster_articles |->
            LET order == Ascending(ids)
            IN  [i \in DOMAIN order |->
                    [cluster_id |-> order[i] \div 10, article_id |-> order[i]]],
         feed_sources |-> FeedSources]

MakeClusters(n) ==
    [c \in ClusterIds(n) |->
        [window_date |-> WindowOfCluster(c),
         label       |-> IF c % 3 = 0 THEN NULL ELSE <<"story " \o ToString(c)>>,
         score       |-> 2 * Len(ShapeOf(c))]]

Init ==
    /\ \E n \in ClusterCounts :
        /\ dataset = MakeDataset(n)
        /\ story_clusters = MakeClusters(n)
    /\ cluster_candidates = {}
    /\ nextRowId = 1
    /\ ops = 0
    /\ ranked = <<>>
    /\ response = <<>>
    /\ articles = <<>>
    /\ cursor = 1
    /\ clusters = <<>>
    /\ best = NoBest
    /\ JobsIdle

(***************************************************************************)
(* Reads of rankClustersForWindowDate.                                     *)
(***************************************************************************)
ClustersOf(windowDate) ==
    {c \in DOMAIN story_clusters : story_clusters[c].window_date = windowDate}

CandidatesOf(windowDate) ==
    {row \in cluster_candidates : row.window_date = windowDate}

\* lines 184-193, the rows in the order the store returned them
ClusterRows(table, ids) ==
    [i \in DOMAIN ids |-> [id |-> ids[i], label |-> table[ids[i]].label]]

\* lines 207-216: the cluster_articles rows of the clusters read, in table
\* order or in the reverse of it
MembershipRows(clusterIds, ascending) ==
    LET rows == SelectSeq(dataset.cluster_articles,
                          LAMBDA m : m.cluster_id \in clusterIds)
    IN  IF ascending THEN rows ELSE Reverse(rows)

\* lines 219-235: .in("id", articleIds).gte(published_at, start).lt(published_at, end)
ArticlesById(memberships, bounds) ==
    LET articleIds == {memberships[i].article_id : i \in DOMAIN memberships}
        found == {id \in articleIds \cap DOMAIN dataset.articles :
                    /\ ~IsNull(dataset.articles[id].published_at)
                    /\ Val(dataset.articles[id].published_at) >= bounds.start
                    /\ Val(dataset.articles[id].published_at) < bounds.end}
    IN  [id \in found |-> dataset.articles[id]]

\* lines 237-257
SourceNameById(articlesById) ==
    LET sourceIds == {Val(articlesById[id].source_id) :
                        id \in {a \in DOMAIN articlesById :
                                    ~IsNull(articlesById[a].source_id)}}
    IN  [sid \in sourceIds \cap DOMAIN dataset.feed_sources |->
            dataset.feed_sources[sid]]

\* the local `ranked` (line 259) for one order of the rows of `table`
RankedFrom(table, windowDate, order) ==
    LET bounds       == toWindowBoundsUtc(windowDate)
        memberships  == MembershipRows(Range(order.ids), order.ascending)
        articlesById == ArticlesById(memberships, bounds)
    IN  rankClusters(ClusterRows(table, order.ids), memberships, articlesById,
                     SourceNameById(articlesById), bounds.recencyStart, bounds.end)

Ranked(windowDate, order) == RankedFrom(story_clusters, windowDate, order)

\* mutation of UpsertScores: only the clusters of the candidate list are written
UpsertScoresTopOnly(table, windowDate, rankedList) ==
    LET top == Take(rankedList, TOP_LIMIT)
        rowOf == [i \in DOMAIN top |-> top[i].clusterId]
        written == [c \in Range(rowOf) |->
                        LET r == top[CHOOSE i \in DOMAIN rowOf : rowOf[i] = c]
                        IN  [window_date |-> windowDate, label |-> <<r.label>>,
                             score |-> r.score]]
    IN  [c \in DOMAIN table \cup DOMAIN written |->
            IF c \in DOMAIN written THEN written[c] ELSE table[c]]

\* lines 269-280: upsert of id, window_date, label, score on conflict (id)
UpsertScores(table, windowDate, rankedList) ==
    LET rowOf == [i \in DOMAIN rankedList |-> rankedList[i].clusterId]
        written == [c \in Range(rowOf) |->
                        LET r == rankedList[CHOOSE i \in DOMAIN rowOf : rowOf[i] = c]
                        IN  [window_date |-> windowDate, label |-> <<r.label>>,
                             score |-> r.score]]
    IN  [c \in DOMAIN table \cup DOMAIN written |->
            IF c \in DOMAIN written THEN written[c] ELSE table[c]]

\* lines 298-304: the candidate rows inserted for `top`
CandidateRows(windowDate, top, firstId) ==
    {[id |-> firstId + index - 1, window_date |-> windowDate,
      cluster_id |-> top[index].clusterId, rank |-> index] : index \in DOMAIN top}

\* lines 315-328
RankResult(windowDate, rankedList, top) ==
    [windowDate |-> windowDate,
     clustersConsidered |-> Len(rankedList),
     candidatesSaved |-> Len(top),
     top |-> [index \in DOMAIN top |->
                [rank |-> index, label |-> top[index].label, score |-> top[index].score,
                 volume |-> top[index].volume, breadth |-> top[index].breadth,
                 recency |-> top[index].recency,
                 topPublishers |-> top[index].topPublishers]]]

\* lines 197-202
EmptyRankResult(windowDate) ==
    [windowDate |-> windowDate, clustersConsidered |-> 0, candidatesSaved |-> 0,
     top |-> <<>>]

Reply(op, windowDate, status, error, body) ==
    [op |-> op, windowDate |-> windowDate, status |-> status, error |-> error,
     body |-> body]

(***************************************************************************)
(* POST /api/admin/rank                                                    *)
(***************************************************************************)
\* an absent or blank windowDate stands for yesterday, a well-formed date
MalformedDates == {"2024-3-1", "20240301"}

\* rank/route.ts:340-345
RankBadDate ==
    /\ ops < MaxOps
    /\ \E windowDate \in MalformedDates :
        /\ ~DATE_PATTERN(windowDate)
        /\ response' = Reply("rank", windowDate, 400,
                             "windowDate must be in YYYY-MM-DD format.", <<>>)
    /\ ops' = ops + 1
    /\ UNCHANGED <<story_clusters, cluster_candidates, dataset, nextRowId, ranked,
                   clusterVars, jobVars>>

\* one of the four reads fails: the run throws before any write
RankReadError ==
    /\ ops < MaxOps
    /\ \E windowDate \in WindowDates,
          stage \in {"clusters", "cluster memberships", "cluster articles", "feed sources"} :
        /\ DATE_PATTERN(windowDate)
        /\ LET clusterIds   == ClustersOf(windowDate)
               memberships  == MembershipRows(clusterIds, TRUE)
               articlesById == ArticlesById(memberships, toWindowBoundsUtc(windowDate))
           IN  /\ stage # "clusters" => clusterIds # {}
               /\ stage = "cluster articles" => memberships # <<>>
               /\ stage = "feed sources" =>
                    \E id \in DOMAIN articlesById : ~IsNull(articlesById[id].source_id)
        /\ response' = Reply("rank", windowDate, 500, "Failed to load " \o stage, <<>>)
    /\ ops' = ops + 1
    /\ UNCHANGED <<story_clusters, cluster_candidates, dataset, nextRowId, ranked,
                   clusterVars, jobVars>>

\* lines 193-203: no cluster in the window; the result of the delete is not
\* looked at, so the run reports success whether or not the delete happened
RankEmptyRun(windowDate, deleteFails) ==
    /\ ops < MaxOps
    /\ DATE_PATTERN(windowDate)
    /\ ClustersOf(windowDate) = {}
    /\ cluster_candidates' =
            IF deleteFails THEN cluster_candidates
            ELSE cluster_candidates \ CandidatesOf(windowDate)
    /\ response' = Reply("rank", windowDate, 200, "", EmptyRankResult(windowDate))
    /\ ops' = ops + 1
    /\ ranked' = <<>>
    /\ UNCHANGED <<story_clusters, dataset, nextRowId, clusterVars, jobVars>>

\* mutation of RankEmpty: a window without clusters is reported as an error
RankEmptyThrows ==
    /\ ops < MaxOps
    /\ \E windowDate \in WindowDates :
        /\ DATE_PATTERN(windowDate)
        /\ ClustersOf(windowDate) = {}
        /\ response' = Reply("rank", windowDate, 500, "No clusters to rank", <<>>)
    /\ ops' = ops + 1
    /\ UNCHANGED <<story_clusters, cluster_candidates, dataset, nextRowId, ranked,
                   clusterVars, jobVars>>

\* lines 193-203 for every window and both outcomes of the delete
RankEmpty ==
    /\ ops < MaxOps
    /\ \E windowDate \in WindowDates, deleteFails \in BOOLEAN :
            RankEmptyRun(windowDate, deleteFails)

\* lines 259-313 with a failing write: the upsert of the scores, the delete of
\* the prior candidates or the insert of the new ones
RankWriteError ==
    /\ ops < MaxOps
    /\ \E windowDate \in WindowDates :
        /\ DATE_PATTERN(windowDate)
        /\ ClustersOf(windowDate) # {}
        /\ \E order \in RowOrders(ClustersOf(windowDate)) :
            LET rankedList == Ranked(windowDate, order)
                scored     == UpsertScores(story_clusters, windowDate, rankedList)
            IN  \E stage \in {"update cluster scores", "clear prior candidates",
                               "save ranked candidates"} :
                    /\ story_clusters' =
                            IF stage = "update cluster scores" THEN story_clusters
                            ELSE scored
                    /\ cluster_candidates' =
                            IF stage = "save ranked candidates"
                            THEN cluster_candidates \ CandidatesOf(windowDate)
                            ELSE cluster_candidates
                    /\ response' = Reply("rank", windowDate, 500,
                                         "Failed to " \o stage, <<>>)
    /\ ops' = ops + 1
    /\ UNCHANGED <<dataset, nextRowId, ranked, clusterVars, jobVars>>

\* lines 182-328, every storage call succeeding
RankOk ==
    /\ ops < MaxOps
    /\ \E windowDate \in WindowDates :
        /\ DATE_PATTERN(windowDate)
        /\ ClustersOf(windowDate) # {}
        /\ \E order \in RowOrders(ClustersOf(windowDate)) :
            LET rankedList == Ranked(windowDate, order)
                top        == Take(rankedList, TOP_LIMIT)
            IN  /\ ranked' = rankedList
                /\ story_clusters' = UpsertScores(story_clusters, windowDate, rankedList)
                /\ cluster_candidates' =
                        (cluster_candidates \ CandidatesOf(windowDate))
                            \cup CandidateRows(windowDate, top, nextRowId)
                /\ nextRowId' = nextRowId + Len(top)
                /\ response' = Reply("rank", windowDate, 200, "",
                                     RankResult(windowDate, rankedList, top))
    /\ ops' = ops + 1
    /\ UNCHANGED <<dataset, clusterVars, jobVars>>

Next ==
    \/ RankBadDate
    \/ RankReadError
    \/ RankEmpty
    \/ RankWriteError
    \/ RankOk

Spec == Init /\ [][Next]_vars

(***************************************************************************)
(* The candidates reorder route (src/unnamed/part_014).  Cluster ids are   *)
(* numbers in the tables and travel as text in the request.                *)
(***************************************************************************)
IdText(c) == ToString(c)

\* the rows of a window by ascending rank, rows of equal rank by id
RowBefore(a, b) == a.rank < b.rank \/ (a.rank = b.rank /\ a.id < b.id)

RECURSIVE ByRank(_)
ByRank(rows) ==
    IF rows = {} THEN <<>>
    ELSE LET row    == CHOOSE r \in rows : TRUE
             others == ByRank(rows \ {row})
             ahead  == Cardinality({i \in DOMAIN others : RowBefore(others[i], row)})
         IN  SubSeq(others, 1, ahead) \o <<row>>
                \o SubSeq(others, ahead + 1, Len(others))

\* lines 69-74: .eq(window_date).order(rank).limit(MAX_REORDER); rows of equal
\* rank come in an order the store picks, so every choice among the rows that
\* share the last rank within the limit is a possible result
TopRowsChoices(table, windowDate) ==
    LET rows == {row \in table : row.window_date = windowDate}
    IN  IF Cardinality(rows) <= MAX_REORDER THEN {rows}
        ELSE LET cut  == CHOOSE r \in {row.rank : row \in rows} :
                            /\ Cardinality({row \in rows : row.rank < r}) < MAX_REORDER
                            /\ Cardinality({row \in rows : row.rank <= r}) >= MAX_REORDER
                 sure == {row \in rows : row.rank < cut}
                 tied == {row \in rows : row.rank = cut}
             IN  {sure \cup some :
                    some \in {t \in SUBSET tied :
                                Cardinality(t) = MAX_REORDER - Cardinality(sure)}}

\* lines 32-65: the checks made before the store is read; "" when all pass
ValidationError(windowDate, orderedClusterIds) ==
    LET deduped == {Trim(orderedClusterIds[i]) : i \in DOMAIN orderedClusterIds} \ {""}
    IN  IF ~DATE_PATTERN(windowDate)
        THEN "windowDate must be in YYYY-MM-DD format."
        ELSE IF Len(orderedClusterIds) = 0
        THEN "orderedClusterIds is required."
        ELSE IF Len(orderedClusterIds) > MAX_REORDER
        THEN "Cannot reorder more than " \o ToString(MAX_REORDER) \o " clusters."
        ELSE IF Cardinality(deduped) # Len(orderedClusterIds)
        THEN "orderedClusterIds must be unique."
        ELSE ""

\* lines 91-108: the checks against the rows read; "" when both pass
MismatchError(topRows, orderedClusterIds) ==
    LET topClusterSet == {IdText(row.cluster_id) : row \in topRows}
        requestedSet  == Range(orderedClusterIds)
    IN  IF Cardinality(topRows) # Len(orderedClusterIds)
        THEN "Expected " \o ToString(Cardinality(topRows)) \o " cluster ids."
        ELSE IF \/ \E clusterId \in requestedSet : clusterId \notin topClusterSet
                \/ \E clusterId \in topClusterSet : clusterId \notin requestedSet
        THEN "orderedClusterIds must match the current top candidates exactly."
        ELSE ""

\* line 110: new Map(topRows.map((row) => [row.cluster_id, row.id])); of two
\* rows of one cluster the later one wins, here the one of the higher rank
CandidateIdByCluster(topRows) ==
    [clusterId \in {IdText(row.cluster_id) : row \in topRows} |->
        LET sameCluster == {row \in topRows : IdText(row.cluster_id) = clusterId}
        IN  ByRank(sameCluster)[Cardinality(sameCluster)].id]

\* mutation of UpdateRank: the rank is written to a new row
UpdateRankInsert(table, candidateId, rank) ==
    table \cup {[row EXCEPT !.id = row.id + 1000, !.rank = rank] :
                    row \in {r \in table : r.id = candidateId}}

\* lines 119-122: .update({ rank: index + 1 }).eq("id", candidateId)
UpdateRank(table, candidateId, rank) ==
    {IF row.id = candidateId THEN [row EXCEPT !.rank = rank] ELSE row : row \in table}

\* lines 112-130: the first `count` iterations of the update loop
RECURSIVE ApplyUpdates(_, _, _, _)
ApplyUpdates(table, orderedClusterIds, candidateIdByCluster, count) ==
    IF count = 0 THEN table
    ELSE LET before    == ApplyUpdates(table, orderedClusterIds,
                                       candidateIdByCluster, count - 1)
             clusterId == orderedClusterIds[count]
         IN  IF clusterId \notin DOMAIN candidateIdByCluster THEN before
             ELSE UpdateRank(before, candidateIdByCluster[clusterId], count)

\* lines 132-136
ReorderResult(windowDate, orderedClusterIds) ==
    [windowDate |-> windowDate, reordered |-> TRUE,
     orderedClusterIds |-> orderedClusterIds]

(***************************************************************************)
(* The requests of the reorder route.  The submitted lists are built from  *)
(* the cluster ids stored for the window, in rank order: the stored list,  *)
(* its first MAX_REORDER ids, permutations of these, and lists that are    *)
(* too short, too long, hold an id that is not stored, an id twice, an id  *)
(* with a blank in front, or a blank string.                               *)
(***************************************************************************)
ReorderDates == {WindowA, WindowB \o " ", "2024-3-1"}

ForeignId == "0"

\* a list of more than MAX_REORDER ids
Oversized == [i \in 1..(MAX_REORDER + 1) |-> IdText(i)]

StoredIds(windowDate) ==
    LET rows == ByRank(CandidatesOf(windowDate))
    IN  [i \in DOMAIN rows |-> IdText(rows[i].cluster_id)]

Submissions(windowDate) ==
    LET stored == StoredIds(windowDate)
        top    == Take(stored, MAX_REORDER)
    IN  {<<>>, stored, top, Append(top, ForeignId), Oversized}
            \cup (IF top = <<>> THEN {}
                  ELSE {Reverse(top),
                        Tail(top) \o <<Head(top)>>,
                        Tail(top),
                        <<ForeignId>> \o Tail(top),
                        <<top[Len(top)]>> \o Tail(top),
                        <<" " \o Head(top)>> \o Tail(top),
                        <<" ">> \o Tail(top)})

\* the update that fails: the first, the second or the last of the loop
FailingUpdates(orderedClusterIds) ==
    {1, 2, Len(orderedClusterIds)} \cap (1..Len(orderedClusterIds))

\* what no reorder request writes
ReorderFrame ==
    /\ ops < MaxOps
    /\ ops' = ops + 1
    /\ UNCHANGED <<story_clusters, dataset, nextRowId, ranked, clusterVars, jobVars>>

\* lines 32-65: 400 before the store is read
ReorderInvalid(rawDate, orderedClusterIds) ==
    LET windowDate == Trim(rawDate)
    IN  /\ ReorderFrame
        /\ ValidationError(windowDate, orderedClusterIds) # ""
        /\ response' = Reply("reorder", windowDate, 400,
                             ValidationError(windowDate, orderedClusterIds), <<>>)
        /\ UNCHANGED cluster_candidates

\* lines 76-81: the read of the candidates fails
ReorderLoadError(rawDate, orderedClusterIds) ==
    LET windowDate == Trim(rawDate)
    IN  /\ ReorderFrame
        /\ ValidationError(windowDate, orderedClusterIds) = ""
        /\ response' = Reply("reorder", windowDate, 500, "Failed to load candidates",
                             <<>>)
        /\ UNCHANGED cluster_candidates

\* lines 83-89
ReorderNotFound(rawDate, orderedClusterIds) ==
    LET windowDate == Trim(rawDate)
    IN  /\ ReorderFrame
        /\ ValidationError(windowDate, orderedClusterIds) = ""
        /\ \E topRows \in TopRowsChoices(cluster_candidates, windowDate) :
                topRows = {}
        /\ response' = Reply("reorder", windowDate, 404,
                             "No candidates found for this windowDate.", <<>>)
        /\ UNCHANGED cluster_candidates

\* mutation of ReorderMismatch: the update loop runs before the two checks
ReorderMismatchLate(rawDate, orderedClusterIds) ==
    LET windowDate == Trim(rawDate)
    IN  /\ ReorderFrame
        /\ ValidationError(windowDate, orderedClusterIds) = ""
        /\ \E topRows \in TopRowsChoices(cluster_candidates, windowDate) :
            /\ topRows # {}
            /\ MismatchError(topRows, orderedClusterIds) # ""
            /\ cluster_candidates' =
                    ApplyUpdates(cluster_candidates, orderedClusterIds,
                                 CandidateIdByCluster(topRows), Len(orderedClusterIds))
            /\ response' = Reply("reorder", windowDate, 400,
                                 MismatchError(topRows, orderedClusterIds), <<>>)

\* lines 91-108
ReorderMismatch(rawDate, orderedClusterIds) ==
    LET windowDate == Trim(rawDate)
    IN  /\ ReorderFrame
        /\ ValidationError(windowDate, orderedClusterIds) = ""
        /\ \E topRows \in TopRowsChoices(cluster_candidates, windowDate) :
            /\ topRows # {}
            /\ MismatchError(topRows, orderedClusterIds) # ""
            /\ response' = Reply("reorder", windowDate, 400,
                                 MismatchError(topRows, orderedClusterIds), <<>>)
        /\ UNCHANGED cluster_candidates

\* lines 112-130 with an update that fails: the updates before it stay
ReorderUpdateError(rawDate, orderedClusterIds) ==
    LET windowDate == Trim(rawDate)
    IN  /\ ReorderFrame
        /\ ValidationError(windowDate, orderedClusterIds) = ""
        /\ \E topRows \in TopRowsChoices(cluster_candidates, windowDate) :
            /\ topRows # {}
            /\ MismatchError(topRows, orderedClusterIds) = ""
            /\ \E failed \in FailingUpdates(orderedClusterIds) :
                /\ cluster_candidates' =
                        ApplyUpdates(cluster_candidates, orderedClusterIds,
                                     CandidateIdByCluster(topRows), failed - 1)
                /\ response' = Reply("reorder", windowDate, 500,
                                     "Failed to update rank for cluster "
                                        \o orderedClusterIds[failed], <<>>)

\* lines 112-136
ReorderOk(rawDate, orderedClusterIds) ==
    LET windowDate == Trim(rawDate)
    IN  /\ ReorderFrame
        /\ ValidationError(windowDate, orderedClusterIds) = ""
        /\ \E topRows \in TopRowsChoices(cluster_candidates, windowDate) :
            /\ topRows # {}
            /\ MismatchError(topRows, orderedClusterIds) = ""
            /\ cluster_candidates' =
                    ApplyUpdates(cluster_candidates, orderedClusterIds,
                                 CandidateIdByCluster(topRows), Len(orderedClusterIds))
            /\ response' = Reply("reorder", windowDate, 200, "",
                                 ReorderResult(windowDate, orderedClusterIds))

\* one request of the route, whatever its outcome
Reorder(rawDate, orderedClusterIds) ==
    \/ ReorderInvalid(rawDate, orderedClusterIds)
    \/ ReorderLoadError(rawDate, orderedClusterIds)
    \/ ReorderNotFound(rawDate, orderedClusterIds)
    \/ ReorderMismatch(rawDate, orderedClusterIds)
    \/ ReorderUpdateError(rawDate, orderedClusterIds)
    \/ ReorderOk(rawDate, orderedClusterIds)

\* cluster counts of the first window when the reorder route is exercised
ReorderCounts == {0, MaxSmall, MAX_REORDER, MAX_REORDER + 1, TOP_LIMIT + 1}

\* the tables after one successful ranking run on each window
InitReorder ==
    /\ \E n \in ReorderCounts :
        LET unranked == MakeClusters(n)
            idsOf(windowDate) ==
                Ascending({c \in DOMAIN unranked :
                                unranked[c].window_date = windowDate})
        IN  /\ dataset = MakeDataset(n)
            /\ \E rankedA \in {RankedFrom(unranked, WindowA,
                                          [ascending |-> TRUE, ids |-> idsOf(WindowA)])} :
                \E scoredA \in {UpsertScores(unranked, WindowA, rankedA)} :
                    \E rankedB \in {RankedFrom(scoredA, WindowB,
                                               [ascending |-> TRUE,
                                                ids |-> idsOf(WindowB)])} :
                        LET topA == Take(rankedA, TOP_LIMIT)
                            topB == Take(rankedB, TOP_LIMIT)
                        IN  /\ story_clusters = UpsertScores(scoredA, WindowB, rankedB)
                            /\ cluster_candidates =
                                    CandidateRows(WindowA, topA, 1)
                                        \cup CandidateRows(WindowB, topB, 1 + Len(topA))
                            /\ nextRowId = 1 + Len(topA) + Len(topB)
                            /\ ranked = rankedB
                            /\ response = Reply("rank", WindowB, 200, "",
                                                RankResult(WindowB, rankedB, topB))
    /\ ops = 0
    /\ articles = <<>>
    /\ cursor = 1
    /\ clusters = <<>>
    /\ best = NoBest
    /\ JobsIdle

\* the route served for one of the requests
ReorderInvalidRequest ==
    \E rawDate \in ReorderDates :
        \E orderedClusterIds \in Submissions(Trim(rawDate)) :
            ReorderInvalid(rawDate, orderedClusterIds)

ReorderLoadErrorRequest ==
    \E rawDate \in ReorderDates :
        \E orderedClusterIds \in Submissions(Trim(rawDate)) :
            ReorderLoadError(rawDate, orderedClusterIds)

ReorderNotFoundRequest ==
    \E rawDate \in ReorderDates :
        \E orderedClusterIds \in Submissions(Trim(rawDate)) :
            ReorderNotFound(rawDate, orderedClusterIds)

ReorderMismatchRequest ==
    \E rawDate \in ReorderDates :
        \E orderedClusterIds \in Submissions(Trim(rawDate)) :
            ReorderMismatch(rawDate, orderedClusterIds)

ReorderUpdateErrorRequest ==
    \E rawDate \in ReorderDates :
        \E orderedClusterIds \in Submissions(Trim(rawDate)) :
            ReorderUpdateError(rawDate, orderedClusterIds)

ReorderOkRequest ==
    \E rawDate \in ReorderDates :
        \E orderedClusterIds \in Submissions(Trim(rawDate)) :
            ReorderOk(rawDate, orderedClusterIds)

NextReorder ==
    \/ ReorderInvalidRequest
    \/ ReorderLoadErrorRequest
    \/ ReorderNotFoundRequest
    \/ ReorderMismatchRequest
    \/ ReorderUpdateErrorRequest
    \/ ReorderOkRequest

SpecReorder == InitReorder /\ [][NextReorder]_vars

(***************************************************************************)
(* clusterArticlesForWindowDate (cluster.ts:232-358).  The tables are      *)
(* handled as one record so that the steps of a run compose; generated     *)
(* identifiers are taken from nextRowId.                                   *)
(***************************************************************************)
Tables ==
    [story_clusters     |-> story_clusters,
     cluster_articles   |-> dataset.cluster_articles,
     cluster_candidates |-> cluster_candidates]

\* mutation of ClearWindow: the candidates do not go with their cluster
ClearWindowNoCascade(db, windowDate) ==
    LET removed == {c \in DOMAIN db.story_clusters :
                        db.story_clusters[c].window_date = windowDate}
    IN  [story_clusters     |-> [c \in DOMAIN db.story_clusters \ removed |->
                                    db.story_clusters[c]],
         cluster_articles   |-> SelectSeq(db.cluster_articles,
                                          LAMBDA m : m.cluster_id \notin removed),
         cluster_candidates |-> db.cluster_candidates]

\* lines 252-255, with the cascades of week2_pipeline.sql:49-65: memberships
\* and candidates go with their cluster
ClearWindow(db, windowDate) ==
    LET removed == {c \in DOMAIN db.story_clusters :
                        db.story_clusters[c].window_date = windowDate}
    IN  [story_clusters     |-> [c \in DOMAIN db.story_clusters \ removed |->
                                    db.story_clusters[c]],
         cluster_articles   |-> SelectSeq(db.cluster_articles,
                                          LAMBDA m : m.cluster_id \notin removed),
         cluster_candidates |-> {row \in db.cluster_candidates :
                                    row.cluster_id \notin removed}]

\* lines 262-267: the ids of the articles published in the window, by
\* descending published_at; articles of equal published_at come in an order
\* the store picks
ArticleOrdersOf(table, windowDate) ==
    LET bounds == toWindowBoundsUtc(windowDate)
        ids == {id \in DOMAIN table :
                    /\ ~IsNull(table[id].published_at)
                    /\ Val(table[id].published_at) >= bounds.start
                    /\ Val(table[id].published_at) < bounds.end}
    IN  {order \in [1..Cardinality(ids) -> ids] :
            /\ \A i, j \in DOMAIN order : i # j => order[i] # order[j]
            /\ \A i, j \in DOMAIN order :
                i < j => Val(table[order[i]].published_at)
                            >= Val(table[order[j]].published_at)}

ArticleOrders(windowDate) == ArticleOrdersOf(dataset.articles, windowDate)

\* lines 273-283; `words` is normalizeText(title, snippet) split at blanks
ToClusterArticles(table, order) ==
    [i \in DOMAIN order |->
        [id     |-> order[i],
         title  |-> table[order[i]].title,
         vector |-> toVector(table[order[i]].words)]]

\* lines 200-216: one iteration of buildWorkingClusters
AssignArticle(cs, article) ==
    LET found == findBestClusterIndex(article, cs)
    IN  IF found.index >= 1 /\ MeetsThreshold(found.similarity)
        THEN [cs EXCEPT ![found.index] =
                [members   |-> Append(@.members, article),
                 vectorSum |-> addToVectorSum(@.vectorSum, article.vector)]]
        ELSE Append(cs, NewCluster(article))

RECURSIVE AssignAll(_, _)
AssignAll(cs, rest) ==
    IF rest = <<>> THEN cs ELSE AssignAll(AssignArticle(cs, Head(rest)), Tail(rest))

buildWorkingClusters(clusterArticles) == AssignAll(<<>>, clusterArticles)

\* mutation of ScanMembers: a member as similar as the best one replaces it
RECURSIVE ScanMembersLastTie(_, _, _, _)
ScanMembersLastTie(cluster, index, bestTitle, bestScore) ==
    IF index > Len(cluster.members) THEN bestTitle
    ELSE LET member == cluster.members[index]
             score  == cosineSimilarity(member.vector, cluster.vectorSum)
         IN  IF index = 1 \/ SimAtLeast(score, bestScore)
             THEN ScanMembersLastTie(cluster, index + 1, member.title, score)
             ELSE ScanMembersLastTie(cluster, index + 1, bestTitle, bestScore)

\* lines 182-195: bestScore starts at -1, so the first member is always taken
RECURSIVE ScanMembers(_, _, _, _)
ScanMembers(cluster, index, bestTitle, bestScore) ==
    IF index > Len(cluster.members) THEN bestTitle
    ELSE LET member == cluster.members[index]
             score  == cosineSimilarity(member.vector, cluster.vectorSum)
         IN  IF index = 1 \/ SimGreater(score, bestScore)
             THEN ScanMembers(cluster, index + 1, member.title, score)
             ELSE ScanMembers(cluster, index + 1, bestTitle, bestScore)

chooseClusterLabel(cluster) ==
    ScanMembers(cluster, 1,
                IF cluster.members # <<>> THEN cluster.members[1].title
                ELSE "Untitled cluster",
                ZeroSimilarity)

\* mutation of InsertClusters: the rows inserted take the place of the
\* clusters the window holds
InsertClustersInPlace(db, windowDate, workingClusters, firstId) ==
    LET created == [index \in DOMAIN workingClusters |-> firstId + index - 1]
        kept    == {c \in DOMAIN db.story_clusters :
                        db.story_clusters[c].window_date # windowDate}
    IN  [db EXCEPT !.story_clusters =
            [c \in kept \cup Range(created) |->
                IF c \in kept THEN db.story_clusters[c]
                ELSE LET cluster == workingClusters[c - firstId + 1]
                     IN  [window_date |-> windowDate,
                          label       |-> <<chooseClusterLabel(cluster)>>,
                          score       |-> 2 * Len(cluster.members)]]]

\* lines 299-309: the rows inserted into story_clusters; the initial score is
\* the member count (scores are kept in halves)
InsertClusters(db, windowDate, workingClusters, firstId) ==
    LET created == [index \in DOMAIN workingClusters |-> firstId + index - 1]
    IN  [db EXCEPT !.story_clusters =
            [c \in DOMAIN db.story_clusters \cup Range(created) |->
                IF c \in DOMAIN db.story_clusters THEN db.story_clusters[c]
                ELSE LET cluster == workingClusters[c - firstId + 1]
                     IN  [window_date |-> windowDate,
                          label       |-> <<chooseClusterLabel(cluster)>>,
                          score       |-> 2 * Len(cluster.members)]]]

\* lines 316-330: a cluster whose id the insert did not return is skipped
RECURSIVE MembershipsOf(_, _, _)
MembershipsOf(workingClusters, createdClusters, index) ==
    IF index > Len(workingClusters) THEN <<>>
    ELSE (IF index > Len(createdClusters) THEN <<>>
          ELSE [m \in DOMAIN workingClusters[index].members |->
                    [cluster_id |-> createdClusters[index],
                     article_id |-> workingClusters[index].members[m].id]])
            \o MembershipsOf(workingClusters, createdClusters, index + 1)

\* lines 332-335
InsertMemberships(db, membershipRows) ==
    [db EXCEPT !.cluster_articles = @ \o membershipRows]

\* clusterSizes.sort((a, b) => b.size - a.size): stable
RECURSIVE InsertBySize(_, _)
InsertBySize(sorted, entry) ==
    IF sorted = <<>> THEN <<entry>>
    ELSE IF entry.size > sorted[Len(sorted)].size
         THEN Append(InsertBySize(SubSeq(sorted, 1, Len(sorted) - 1), entry),
                     sorted[Len(sorted)])
         ELSE Append(sorted, entry)

RECURSIVE SortBySize(_, _)
SortBySize(entries, sorted) ==
    IF entries = <<>> THEN sorted
    ELSE SortBySize(Tail(entries), InsertBySize(sorted, Head(entries)))

\* lines 285-295
EmptyClusterResult(windowDate, replace, replacedClusterCount) ==
    [windowDate |-> windowDate, replace |-> replace,
     replacedClusters |-> replacedClusterCount, articlesConsidered |-> 0,
     clustersCreated |-> 0, avgClusterSize |-> 0, largestClusters |-> <<>>]

LARGEST_CLUSTERS == 5

\* lines 342-357; avgClusterSize is kept in hundredths, rounded as toFixed(2)
ClusterResult(windowDate, replace, replacedClusterCount, articleCount, workingClusters) ==
    [windowDate |-> windowDate, replace |-> replace,
     replacedClusters |-> replacedClusterCount,
     articlesConsidered |-> articleCount,
     clustersCreated |-> Len(workingClusters),
     avgClusterSize |-> (200 * articleCount + Len(workingClusters))
                            \div (2 * Len(workingClusters)),
     largestClusters |->
        Take(SortBySize([i \in DOMAIN workingClusters |->
                            [label |-> chooseClusterLabel(workingClusters[i]),
                             size  |-> Len(workingClusters[i].members)]], <<>>),
             LARGEST_CLUSTERS)]

(***************************************************************************)
(* POST /api/admin/cluster (cluster/route.ts) and the outcomes of a run.   *)
(* A run is one step: the writes it made before a storage call failed stay.*)
(***************************************************************************)
\* the tables become db
Store(db) ==
    /\ story_clusters' = db.story_clusters
    /\ dataset' = [dataset EXCEPT !.cluster_articles = db.cluster_articles]
    /\ cluster_candidates' = db.cluster_candidates

ClusterFrame ==
    /\ ops < MaxOps
    /\ ops' = ops + 1
    /\ UNCHANGED <<ranked, clusterVars, jobVars>>

\* lines 239-260: the tables once the prior clusters of the window are cleared
Cleared(windowDate, replace) ==
    IF replace THEN ClearWindow(Tables, windowDate) ELSE Tables

\* line 250
ReplacedClusterCount(windowDate, replace) ==
    IF replace THEN Cardinality(ClustersOf(windowDate)) ELSE 0

\* cluster/route.ts:26-31
ClusterBadDate ==
    /\ ClusterFrame
    /\ \E windowDate \in MalformedDates :
        /\ ~DATE_PATTERN(windowDate)
        /\ response' = Reply("cluster", windowDate, 400,
                             "windowDate must be in YYYY-MM-DD format.", <<>>)
    /\ UNCHANGED <<story_clusters, dataset, cluster_candidates, nextRowId>>

\* lines 241-248 and 252-259: the read or the delete of the prior clusters fails
ClusterReplaceError ==
    /\ ClusterFrame
    /\ \E windowDate \in WindowDates :
        \E error \in {"Failed to load previous clusters",
                      "Failed to clear previous clusters"} :
            response' = Reply("cluster", windowDate, 500, error, <<>>)
    /\ UNCHANGED <<story_clusters, dataset, cluster_candidates, nextRowId>>

\* lines 262-271: the read of the articles fails, after the delete
ClusterArticlesError ==
    /\ ClusterFrame
    /\ \E windowDate \in WindowDates, replace \in BOOLEAN :
        /\ Store(Cleared(windowDate, replace))
        /\ response' = Reply("cluster", windowDate, 500,
                             "Failed to load articles for clustering", <<>>)
    /\ UNCHANGED nextRowId

\* lines 285-295: no article in the window
ClusterEmpty ==
    /\ ClusterFrame
    /\ \E windowDate \in WindowDates, replace \in BOOLEAN :
        /\ ArticleOrders(windowDate) = {<<>>}
        /\ Store(Cleared(windowDate, replace))
        /\ response' = Reply("cluster", windowDate, 200, "",
                             EmptyClusterResult(windowDate, replace,
                                                ReplacedClusterCount(windowDate, replace)))
    /\ UNCHANGED nextRowId

\* lines 306-313: the insert of the clusters fails
ClusterInsertError ==
    /\ ClusterFrame
    /\ \E windowDate \in WindowDates, replace \in BOOLEAN :
        /\ ArticleOrders(windowDate) # {<<>>}
        /\ Store(Cleared(windowDate, replace))
        /\ response' = Reply("cluster", windowDate, 500, "Failed to insert clusters",
                             <<>>)
    /\ UNCHANGED nextRowId

\* lines 332-339: the insert of the memberships fails, the clusters stay
ClusterMembershipError ==
    /\ ClusterFrame
    /\ \E windowDate \in WindowDates, replace \in BOOLEAN :
        \E order \in ArticleOrders(windowDate) \ {<<>>} :
            \E workingClusters \in
                    {buildWorkingClusters(ToClusterArticles(dataset.articles, order))} :
                /\ Store(InsertClusters(Cleared(windowDate, replace), windowDate,
                                        workingClusters, nextRowId))
                /\ nextRowId' = nextRowId + Len(workingClusters)
                /\ response' = Reply("cluster", windowDate, 500,
                                     "Failed to insert cluster memberships", <<>>)

\* lines 297-357: the run succeeds; `returned` is the number of ids the insert
\* of the clusters returned
ClusterRun(windowDate, replace, order, returned) ==
    LET workingClusters == buildWorkingClusters(ToClusterArticles(dataset.articles, order))
        createdClusters == [i \in 1..returned |-> nextRowId + i - 1]
    IN  /\ ClusterFrame
        /\ order # <<>>
        /\ Store(InsertMemberships(
                    InsertClusters(Cleared(windowDate, replace), windowDate,
                                   workingClusters, nextRowId),
                    MembershipsOf(workingClusters, createdClusters, 1)))
        /\ nextRowId' = nextRowId + Len(workingClusters)
        /\ response' = Reply("cluster", windowDate, 200, "",
                             ClusterResult(windowDate, replace,
                                           ReplacedClusterCount(windowDate, replace),
                                           Len(order), workingClusters))

\* the insert of the clusters returns the ids of all rows or of fewer
ReturnedCounts(order) ==
    LET created == Len(buildWorkingClusters(ToClusterArticles(dataset.articles, order)))
    IN  {created, created - 1}

ClusterOk ==
    \E windowDate \in WindowDates, replace \in BOOLEAN :
        \E order \in ArticleOrders(windowDate) \ {<<>>} :
            \E returned \in ReturnedCounts(order) :
                ClusterRun(windowDate, replace, order, returned)

(***************************************************************************)
(* The three routes on one small set of articles.  Articles 1 and 2 have   *)
(* the same published_at, article 4 has none, article 5 is of the second   *)
(* window.  The initial tables are empty, or hold the result of one        *)
(* clustering run and one ranking run on the first window.                 *)
(***************************************************************************)
Newsroom ==
    <<  [title |-> "Rates", words |-> <<"rates">>,
         publisher |-> <<"AP">>, source_id |-> NULL, at |-> <<10>>],
        [title |-> "Bakery", words |-> <<"bakery">>,
         publisher |-> <<"BBC">>, source_id |-> NULL, at |-> <<10>>],
        [title |-> "Rates bakery", words |-> <<"rates", "bakery">>,
         publisher |-> <<"AP">>, source_id |-> NULL, at |-> <<5>>],
        [title |-> "Fed", words |-> Repeat("fed", 3) \o Repeat("rates", 4),
         publisher |-> NULL, source_id |-> <<"s1">>, at |-> NULL],
        [title |-> "Rates again", words |-> <<"rates">>,
         publisher |-> NULL, source_id |-> <<"s1">>, at |-> <<44>>]
    >>

PipelineSizes == {3, Len(Newsroom)}

ArticleTable(k) ==
    [id \in 1..k |->
        [id           |-> id,
         title        |-> Newsroom[id].title,
         words        |-> Newsroom[id].words,
         publisher    |-> Newsroom[id].publisher,
         source_id    |-> Newsroom[id].source_id,
         published_at |-> Newsroom[id].at]]

EmptyTables ==
    [story_clusters |-> <<>>, cluster_articles |-> <<>>, cluster_candidates |-> {}]

\* the articles and the tables a behaviour starts from
PipelineTables ==
    \E k \in PipelineSizes :
        \/ /\ dataset = [articles |-> ArticleTable(k), cluster_articles |-> <<>>,
                         feed_sources |-> FeedSources]
           /\ story_clusters = <<>>
           /\ cluster_candidates = {}
           /\ nextRowId = 1
           /\ ranked = <<>>
           /\ response = <<>>
        \/ \E order \in ArticleOrdersOf(ArticleTable(k), WindowA) :
            \E workingClusters \in
                    {buildWorkingClusters(ToClusterArticles(ArticleTable(k), order))} :
                \E db \in {InsertMemberships(
                                InsertClusters(EmptyTables, WindowA, workingClusters, 1),
                                MembershipsOf(workingClusters,
                                              [i \in DOMAIN workingClusters |-> i], 1))} :
                    /\ dataset = [articles |-> ArticleTable(k),
                                  cluster_articles |-> db.cluster_articles,
                                  feed_sources |-> FeedSources]
                    /\ \E rankedA \in
                            {RankedFrom(db.story_clusters, WindowA,
                                        [ascending |-> TRUE,
                                         ids |-> Ascending(DOMAIN db.story_clusters)])} :
                        /\ story_clusters =
                                UpsertScores(db.story_clusters, WindowA, rankedA)
                        /\ cluster_candidates =
                                CandidateRows(WindowA, Take(rankedA, TOP_LIMIT),
                                              1 + Len(workingClusters))
                        /\ nextRowId = 1 + Len(workingClusters) + Len(Take(rankedA, TOP_LIMIT))
                        /\ ranked = rankedA
                        /\ response = Reply("rank", WindowA, 200, "",
                                            RankResult(WindowA, rankedA,
                                                       Take(rankedA, TOP_LIMIT)))

InitPipeline ==
    /\ PipelineTables
    /\ ops = 0
    /\ articles = <<>>
    /\ cursor = 1
    /\ clusters = <<>>
    /\ best = NoBest
    /\ JobsIdle

NextPipeline ==
    \/ ClusterBadDate
    \/ ClusterReplaceError
    \/ ClusterArticlesError
    \/ ClusterEmpty
    \/ ClusterInsertError
    \/ ClusterMembershipError
    \/ ClusterOk
    \/ RankBadDate
    \/ RankReadError
    \/ RankEmpty
    \/ RankWriteError
    \/ RankOk
    \/ ReorderInvalidRequest
    \/ ReorderLoadErrorRequest
    \/ ReorderNotFoundRequest
    \/ ReorderMismatchRequest
    \/ ReorderUpdateErrorRequest
    \/ ReorderOkRequest

SpecPipeline == InitPipeline /\ [][NextPipeline]_vars

(***************************************************************************)
(* getRepresentativeArticles (part_006).  In this part published_at counts *)
(* tenths of a second after 2024-03-01T10:00:00Z; the store hands the      *)
(* column out as text, and the code compares the texts.                    *)
(***************************************************************************)
CLAMP_MIN == 3
CLAMP_MAX == 6

\* a `number`: a finite value kept in halves, or NaN, Infinity, -Infinity
Finite(halves) == [kind |-> "finite", halves |-> halves]

NotFinite(kind) == [kind |-> kind, halves |-> 0]

\* mutation of clampMax: the lower limit is not applied
clampMaxNoFloor(value) ==
    IF value.kind # "finite" THEN CLAMP_MAX
    ELSE IF value.halves \div 2 > CLAMP_MAX THEN CLAMP_MAX ELSE value.halves \div 2

\* lines 23-29; Math.floor of a value in halves is the division by 2 rounded down
clampMax(value) ==
    IF value.kind # "finite" THEN CLAMP_MAX
    ELSE LET floored == value.halves \div 2
             atLeast == IF floored > CLAMP_MIN THEN floored ELSE CLAMP_MIN
         IN  IF atLeast < CLAMP_MAX THEN atLeast ELSE CLAMP_MAX

\* lines 31-45
memberPublisherName(article, sourceNameById) ==
    LET publisher == IF IsNull(article.publisher) THEN ""
                     ELSE Trim(Val(article.publisher))
    IN  IF publisher # "" THEN publisher
        ELSE IF /\ ~IsNull(article.source_id)
                /\ Val(article.source_id) \in DOMAIN sourceNameById
                /\ Trim(sourceNameById[Val(article.source_id)]) # ""
             THEN Trim(sourceNameById[Val(article.source_id)])
        ELSE "Unknown Publisher"

\* a timestamptz as the store writes it into the JSON reply: ISO 8601 with the
\* fraction of the second only when there is one
FormatTimestamp(t) ==
    "2024-03-01T10:00:" \o ToString((t \div 100) % 10) \o ToString((t \div 10) % 10)
        \o (IF t % 10 = 0 THEN "" ELSE "." \o ToString(t % 10))
        \o "+00:00"

\* the place of a character in the collation order of the runtime (the root
\* order of ICU): punctuation, then symbols, then digits, then letters
CollationRank(ch) ==
    CASE ch = "-" -> 1 [] ch = ":" -> 2 [] ch = "." -> 3 [] ch = "+" -> 4
      [] ch \in Digits -> 5 + DigitValue(ch)
      [] OTHER -> 15

\* the comparison of a and b from the character at `index` on
RECURSIVE CompareFrom(_, _, _)
CompareFrom(a, b, index) ==
    IF index > Len(a) /\ index > Len(b) THEN 0
    ELSE IF index > Len(a) THEN -1
    ELSE IF index > Len(b) THEN 1
    ELSE IF CollationRank(CharAt(a, index)) < CollationRank(CharAt(b, index)) THEN -1
    ELSE IF CollationRank(CharAt(a, index)) > CollationRank(CharAt(b, index)) THEN 1
    ELSE CompareFrom(a, b, index + 1)

\* String.prototype.localeCompare: -1, 0 or 1
localeCompare(a, b) == IF a = b THEN 0 ELSE CompareFrom(a, b, 1)

\* lines 47-61
sortByRecencyDesc(a, b) ==
    IF IsNull(a.published_at) /\ IsNull(b.published_at) THEN 0
    ELSE IF IsNull(a.published_at) THEN 1
    ELSE IF IsNull(b.published_at) THEN -1
    ELSE localeCompare(Val(b.published_at), Val(a.published_at))

\* line 96: Array.prototype.sort is stable
RECURSIVE InsertByRecency(_, _)
InsertByRecency(sorted, row) ==
    IF sorted = <<>> THEN <<row>>
    ELSE IF sortByRecencyDesc(sorted[Len(sorted)], row) > 0
         THEN Append(InsertByRecency(SubSeq(sorted, 1, Len(sorted) - 1), row),
                     sorted[Len(sorted)])
         ELSE Append(sorted, row)

RECURSIVE SortByRecency(_, _)
SortByRecency(rows, sorted) ==
    IF rows = <<>> THEN sorted
    ELSE SortByRecency(Tail(rows), InsertByRecency(sorted, Head(rows)))

\* lines 87-94: the member articles as the store returns them, in the order
\* of `ids`
ArticleData(table, ids) ==
    [i \in DOMAIN ids |->
        [id           |-> ids[i],
         publisher    |-> table[ids[i]].publisher,
         source_id    |-> table[ids[i]].source_id,
         published_at |-> IF IsNull(table[ids[i]].published_at) THEN NULL
                          ELSE <<FormatTimestamp(Val(table[ids[i]].published_at))>>]]

\* lines 98-118: the names of the sources the articles refer to
MemberSourceNames(sources, rows) ==
    [sourceId \in {Val(rows[i].source_id) :
                      i \in {j \in DOMAIN rows : ~IsNull(rows[j].source_id)}}
                  \cap DOMAIN sources |-> sources[sourceId]]

\* lines 120-138, from the article at `index` on
RECURSIVE DiversityPass(_, _, _, _, _, _)
DiversityPass(rows, sourceNameById, limit, index, selected, publisherSet) ==
    IF index > Len(rows) THEN selected
    ELSE LET publisher == memberPublisherName(rows[index], sourceNameById)
         IN  IF publisher \in publisherSet
             THEN DiversityPass(rows, sourceNameById, limit, index + 1, selected,
                                publisherSet)
             ELSE IF Len(selected) + 1 >= limit THEN Append(selected, rows[index])
             ELSE DiversityPass(rows, sourceNameById, limit, index + 1,
                                Append(selected, rows[index]),
                                publisherSet \cup {publisher})

\* mutation of FillPass: the articles picked in the first pass are not skipped
RECURSIVE FillPassAgain(_, _, _, _)
FillPassAgain(rows, limit, index, selected) ==
    IF Len(selected) >= limit \/ index > Len(rows) THEN selected
    ELSE FillPassAgain(rows, limit, index + 1, Append(selected, rows[index]))

\* lines 141-154, from the article at `index` on
RECURSIVE FillPass(_, _, _, _)
FillPass(rows, limit, index, selected) ==
    IF Len(selected) >= limit \/ index > Len(rows) THEN selected
    ELSE IF rows[index].id \in {selected[i].id : i \in DOMAIN selected}
         THEN FillPass(rows, limit, index + 1, selected)
         ELSE FillPass(rows, limit, index + 1, Append(selected, rows[index]))

\* lines 156-162
RepresentativeArticle(article, sourceNameById) ==
    [url          |-> article.id,
     publisher    |-> memberPublisherName(article, sourceNameById),
     published_at |-> article.published_at]

\* lines 120-154: the two passes over the sorted articles
SelectFrom(rows, sourceNameById, limit) ==
    FillPass(rows, limit, 1, DiversityPass(rows, sourceNameById, limit, 1, <<>>, {}))

\* lines 98-162 for the sorted articles
Represent(db, rows, limit) ==
    LET sourceNameById == MemberSourceNames(db.feed_sources, rows)
        selected       == SelectFrom(rows, sourceNameById, limit)
    IN  [i \in DOMAIN selected |-> RepresentativeArticle(selected[i], sourceNameById)]

\* lines 63-163 once the memberships are read; `ids` is the order in which the
\* store returns the articles
getRepresentativeArticles(db, ids, max) ==
    IF ids = <<>> THEN <<>>
    ELSE Represent(db, SortByRecency(ArticleData(db.articles, ids), <<>>), clampMax(max))

(***************************************************************************)
(* Calls of getRepresentativeArticles on two clusters that share out nine  *)
(* articles.  An article is its own url.                                   *)
(***************************************************************************)
Member(publisher, sourceId, publishedAt) ==
    [publisher |-> publisher, source_id |-> sourceId, published_at |-> publishedAt]

Library ==
    <<  Member(<<"AP">>, NULL, <<0>>),
        Member(<<"AP">>, NULL, <<5>>),
        Member(<<"BBC">>, NULL, <<10>>),
        Member(<<"BBC">>, <<"s1">>, <<10>>),
        Member(NULL, <<"s1">>, <<20>>),
        Member(<<" AP ">>, NULL, NULL),
        Member(NULL, <<"s2">>, NULL),
        Member(<<"CNN">>, <<"s3">>, <<15>>),
        Member(<<"NPR">>, NULL, <<12>>)
    >>

\* the values passed as `max`; an omitted `max` is 6 (line 65)
MaxValues ==
    {Finite(halves) : halves \in {-4, 0, 2, 5, 6, 7, 9, 12, 13, 20}}
        \cup {NotFinite(kind) : kind \in {"NaN", "Infinity", "-Infinity"}}

RepresentativeClusters == {1, 2}

\* lines 71-82: the distinct article ids of the memberships of a cluster
ArticleIdsOfCluster(clusterId) ==
    {dataset.cluster_articles[i].article_id :
        i \in {j \in DOMAIN dataset.cluster_articles :
                    dataset.cluster_articles[j].cluster_id = clusterId}}

InitRepresentative ==
    /\ \E members \in SUBSET DOMAIN Library :
        dataset = [articles |-> Library,
                   cluster_articles |->
                        [a \in DOMAIN Library |->
                            [cluster_id |-> IF a \in members THEN 1 ELSE 2,
                             article_id |-> a]],
                   feed_sources |-> FeedSources]
    /\ story_clusters = [c \in RepresentativeClusters |->
                            [window_date |-> WindowA, label |-> NULL, score |-> 0]]
    /\ cluster_candidates = {}
    /\ nextRowId = 1
    /\ ops = 0
    /\ ranked = <<>>
    /\ response = <<>>
    /\ articles = <<>>
    /\ cursor = 1
    /\ clusters = <<>>
    /\ best = NoBest
    /\ JobsIdle

\* the call writes nothing: one call in a behaviour
RepresentativeFrame ==
    /\ ops = 0
    /\ ops' = ops + 1
    /\ UNCHANGED <<story_clusters, dataset, cluster_candidates, nextRowId, ranked,
                   clusterVars, jobVars>>

\* lines 71-78, 87-94, 106-114: one of the three reads fails and the call throws
RepresentativeError ==
    /\ RepresentativeFrame
    /\ \E clusterId \in RepresentativeClusters :
        \E error \in {"Failed to load cluster memberships",
                      "Failed to load cluster articles",
                      "Failed to load feed source names"} :
            /\ error = "Failed to load cluster memberships"
                    \/ ArticleIdsOfCluster(clusterId) # {}
            /\ error = "Failed to load feed source names" =>
                    \E a \in ArticleIdsOfCluster(clusterId) :
                        ~IsNull(dataset.articles[a].source_id)
            /\ response' = [op |-> "representative", clusterId |-> clusterId,
                            status |-> 500, error |-> error, body |-> <<>>]

\* lines 63-163: the call returns
Representative ==
    /\ RepresentativeFrame
    /\ \E clusterId \in RepresentativeClusters, max \in MaxValues :
        \E order \in RowOrders(ArticleIdsOfCluster(clusterId)) :
            response' = [op |-> "representative", clusterId |-> clusterId,
                         max |-> max, status |-> 200, error |-> "",
                         body |-> getRepresentativeArticles(dataset, order.ids, max)]

NextRepresentative ==
    \/ RepresentativeError
    \/ Representative

SpecRepresentative == InitRepresentative /\ [][NextRepresentative]_vars

(***************************************************************************)
(* cosineSimilarity on pairs of vectors: the vectors of the corpus texts   *)
(* and of two texts joined, which are the sums of two vectors.             *)
(***************************************************************************)
SimilarityTexts ==
    Range(Corpus) \cup {Corpus[i] \o Corpus[i + 1] : i \in 1..(Len(Corpus) - 1)}

InitSimilarity ==
    /\ \E a, b \in SimilarityTexts :
            articles = <<ClusterArticle(1, a), ClusterArticle(2, b)>>
    /\ cursor = 1
    /\ clusters = <<>>
    /\ best = NoBest
    /\ JobsIdle
    /\ story_clusters = <<>>
    /\ cluster_candidates = {}
    /\ dataset = <<>>
    /\ nextRowId = 1
    /\ ops = 0
    /\ ranked = <<>>
    /\ response = <<>>

\* cluster.ts:128-155 applied to the two vectors in both orders and to the
\* first with itself
Similarity ==
    /\ ops = 0
    /\ ops' = 1
    /\ response' = [op   |-> "similarity",
                    ab   |-> cosineSimilarity(articles[1].vector, articles[2].vector),
                    ba   |-> cosineSimilarity(articles[2].vector, articles[1].vector),
                    self |-> cosineSimilarity(articles[1].vector, articles[1].vector)]
    /\ UNCHANGED <<jobVars, clusterVars, story_clusters, cluster_candidates, dataset, nextRowId,
                   ranked>>

NextSimilarity == Similarity

SpecSimilarity == InitSimilarity /\ [][NextSimilarity]_vars

(***************************************************************************)
(* chooseClusterLabel on the clusters buildWorkingClusters returns for the *)
(* article lists of the corpus, each article with a title of its own, and  *)
(* on a cluster without members.                                           *)
(***************************************************************************)
TitledArticles(choice) ==
    [i \in DOMAIN choice |->
        [id |-> i, title |-> "Title " \o ToString(i), vector |-> toVector(Corpus[choice[i]])]]

EmptyCluster == [members |-> <<>>, vectorSum |-> EmptyVector]

InitLabel ==
    /\ \E choice \in ArticleLists :
        /\ articles = TitledArticles(choice)
        /\ clusters = buildWorkingClusters(TitledArticles(choice)) \o <<EmptyCluster>>
    /\ cursor = 1
    /\ best = NoBest
    /\ JobsIdle
    /\ story_clusters = <<>>
    /\ cluster_candidates = {}
    /\ dataset = <<>>
    /\ nextRowId = 1
    /\ ops = 0
    /\ ranked = <<>>
    /\ response = <<>>

\* cluster.ts:301 and 343: the label of one of the clusters
ChooseLabel ==
    /\ ops = 0
    /\ ops' = 1
    /\ \E index \in DOMAIN clusters :
        response' = [op |-> "label", index |-> index,
                     label |-> chooseClusterLabel(clusters[index])]
    /\ UNCHANGED <<jobVars, clusterVars, story_clusters, cluster_candidates, dataset, nextRowId,
                   ranked>>

NextLabel == ChooseLabel

SpecLabel == InitLabel /\ [][NextLabel]_vars

(***************************************************************************)
(* generateDraftFromTopClusters (brief/route.ts:508-679) and the route     *)
(* POST /api/admin/generate-draft (brief/route.ts:680-707).  A brief is    *)
(* kept with its id, status and published_at, a story with its cluster,    *)
(* headline and summary; brief ids are taken from nextRowId.               *)
(***************************************************************************)
REQUIRED_STORY_COUNT == 5

\* lines 512-516: .eq("brief_date", windowDate).maybeSingle()
ExistingBrief(windowDate) ==
    IF windowDate \in DOMAIN daily_briefs THEN <<daily_briefs[windowDate]>> ELSE NULL

\* lines 528-533, .eq(window_date).order(rank).limit(REQUIRED_STORY_COUNT), and
\* the stable sort of lines 610-612: the first rows by ascending rank, rows of
\* equal rank in an order the store picks
TopCandidates(table, windowDate) ==
    LET rows  == {row \in table : row.window_date = windowDate}
        count == IF Cardinality(rows) < REQUIRED_STORY_COUNT THEN Cardinality(rows)
                 ELSE REQUIRED_STORY_COUNT
    IN  {list \in [1..count -> rows] :
            /\ \A i, j \in 1..count :
                i < j => list[i] # list[j] /\ list[i].rank <= list[j].rank
            /\ \A row \in rows :
                (\A i \in 1..count : list[i] # row)
                    => \A i \in 1..count : list[i].rank <= row.rank}

\* line 631: cluster?.label?.trim() || `Cluster ${candidate.cluster_id}`
Headline(clusterId) ==
    LET label == IF clusterId \in DOMAIN story_clusters
                 THEN story_clusters[clusterId].label ELSE NULL
    IN  IF ~IsNull(label) /\ Trim(Val(label)) # "" THEN Trim(Val(label))
        ELSE "Cluster " \o IdText(clusterId)

\* lines 615-638
StoryRows(topCandidates) ==
    [index \in DOMAIN topCandidates |->
        [cluster_id |-> <<topCandidates[index].cluster_id>>,
         position   |-> index,
         headline   |-> Headline(topCandidates[index].cluster_id),
         summary    |-> "Summary pending"]]

\* lines 640-652: upsert on conflict (brief_date); a brief that exists keeps
\* its id
UpsertBrief(table, windowDate, newId) ==
    [date \in DOMAIN table \cup {windowDate} |->
        IF date = windowDate
        THEN [id |-> IF windowDate \in DOMAIN table THEN table[windowDate].id ELSE newId,
              status |-> "draft", published_at |-> NULL]
        ELSE table[date]]

\* lines 660-668: upsert on conflict (brief_id, position)
UpsertStories(table, briefId, storyRows) ==
    LET written == {<<briefId, storyRows[i].position>> : i \in DOMAIN storyRows}
    IN  [key \in DOMAIN table \cup written |->
            IF key \in written
            THEN [cluster_id |-> storyRows[key[2]].cluster_id,
                  headline   |-> storyRows[key[2]].headline,
                  summary    |-> storyRows[key[2]].summary]
            ELSE table[key]]

\* lines 546-599: the reads made for the clusters of the candidates; the
\* articles are read when there is a membership, the sources when an article
\* names one
DraftReadErrors(topCandidates) ==
    LET clusterIds == {topCandidates[i].cluster_id : i \in DOMAIN topCandidates}
        articleIds == {dataset.cluster_articles[i].article_id :
                        i \in {m \in DOMAIN dataset.cluster_articles :
                                dataset.cluster_articles[m].cluster_id \in clusterIds}}
        sourced    == {id \in articleIds \cap DOMAIN dataset.articles :
                        ~IsNull(dataset.articles[id].source_id)}
    IN  {"Failed to load story clusters", "Failed to load cluster memberships"}
            \cup (IF articleIds # {} THEN {"Failed to load cluster article details"}
                  ELSE {})
            \cup (IF sourced # {} THEN {"Failed to load source names"} ELSE {})

\* an outcome of generateDraftFromTopClusters: the two tables after it, the
\* number of ids it generated, the error it threw ("" when it returned) and
\* the brief id it returned
DraftOutcome(briefs, stories, created, error, briefId) ==
    [daily_briefs |-> briefs, brief_stories |-> stories, created |-> created,
     error |-> error, briefId |-> briefId]

DraftThrows(error) == DraftOutcome(daily_briefs, brief_stories, 0, error, 0)

\* mutation of generateDraftFromTopClusters: a published brief is overwritten
generateDraftOverPublished(windowDate) ==
    LET existing == ExistingBrief(windowDate)
        created  == IF IsNull(existing) THEN 1 ELSE 0
        briefs   == UpsertBrief(daily_briefs, windowDate, nextRowId)
        briefId  == briefs[windowDate].id
    IN  {DraftThrows("Failed to check existing brief status"),
         DraftThrows("Failed to load ranked candidates")}
        \cup
        (IF Cardinality(CandidatesOf(windowDate)) < REQUIRED_STORY_COUNT
         THEN {DraftThrows("Not enough ranked clusters for this date. "
                            \o "Run ingest -> cluster -> rank first.")}
         ELSE UNION {
                {DraftThrows(error) : error \in DraftReadErrors(topCandidates)}
                    \cup {DraftOutcome(briefs,
                                       UpsertStories(brief_stories, briefId,
                                                     StoryRows(topCandidates)),
                                       created, "", briefId)}
                : topCandidates \in TopCandidates(cluster_candidates, windowDate)}
              \cup {DraftThrows("Failed to create or update draft brief"),
                    DraftOutcome(briefs, brief_stories, created,
                                 "Failed to upsert generated brief stories", 0)})

\* lines 508-679, every outcome of one call
generateDraftFromTopClusters(windowDate) ==
    LET existing == ExistingBrief(windowDate)
        created  == IF IsNull(existing) THEN 1 ELSE 0
        briefs   == UpsertBrief(daily_briefs, windowDate, nextRowId)
        briefId  == briefs[windowDate].id
    IN  {DraftThrows("Failed to check existing brief status")}
        \cup
        (IF ~IsNull(existing) /\ Val(existing).status = "published"
         THEN {DraftThrows("A published brief already exists for this date. "
                            \o "Unpublish it first or choose another date.")}
         ELSE {DraftThrows("Failed to load ranked candidates")}
              \cup
              (IF Cardinality(CandidatesOf(windowDate)) < REQUIRED_STORY_COUNT
               THEN {DraftThrows("Not enough ranked clusters for this date. "
                                  \o "Run ingest -> cluster -> rank first.")}
               ELSE UNION {
                      {DraftThrows(error) : error \in DraftReadErrors(topCandidates)}
                          \cup {DraftOutcome(briefs,
                                             UpsertStories(brief_stories, briefId,
                                                           StoryRows(topCandidates)),
                                             created, "", briefId)}
                      : topCandidates \in TopCandidates(cluster_candidates, windowDate)}
                    \cup {DraftThrows("Failed to create or update draft brief"),
                          DraftOutcome(briefs, brief_stories, created,
                                       "Failed to upsert generated brief stories", 0)}))

\* lines 670-678
DraftResult(windowDate, briefId) ==
    [windowDate |-> windowDate, briefId |-> briefId, editorLink |-> "/admin#brief-editor"]

\* what no generate-draft request writes
DraftFrame ==
    /\ ops < MaxOps
    /\ ops' = ops + 1
    /\ UNCHANGED <<story_clusters, cluster_candidates, dataset, ranked, clusterVars,
                   nightly, runs, drafting>>

\* lines 689-694
DraftBadDate ==
    /\ DraftFrame
    /\ \E windowDate \in MalformedDates :
        /\ ~DATE_PATTERN(windowDate)
        /\ response' = Reply("draft", windowDate, 400,
                             "windowDate must be in YYYY-MM-DD format.", <<>>)
    /\ UNCHANGED <<daily_briefs, brief_stories, nextRowId>>

\* lines 698-706: the draft generation threw
DraftError ==
    /\ DraftFrame
    /\ \E windowDate \in WindowDates :
        \E outcome \in generateDraftFromTopClusters(windowDate) :
            /\ outcome.error # ""
            /\ daily_briefs' = outcome.daily_briefs
            /\ brief_stories' = outcome.brief_stories
            /\ nextRowId' = nextRowId + outcome.created
            /\ response' = Reply("draft", windowDate, 500, outcome.error, <<>>)

\* lines 698-700: the draft generation returned
DraftOk ==
    /\ DraftFrame
    /\ \E windowDate \in WindowDates :
        \E outcome \in generateDraftFromTopClusters(windowDate) :
            /\ outcome.error = ""
            /\ daily_briefs' = outcome.daily_briefs
            /\ brief_stories' = outcome.brief_stories
            /\ nextRowId' = nextRowId + outcome.created
            /\ response' = Reply("draft", windowDate, 200, "",
                                 DraftResult(windowDate, outcome.briefId))

\* cluster counts of the first window: none, and those around
\* REQUIRED_STORY_COUNT
DraftCounts ==
    {0, REQUIRED_STORY_COUNT - 1, REQUIRED_STORY_COUNT, REQUIRED_STORY_COUNT + 1}

\* the stories of an earlier brief: no cluster assigned
OldStories(briefId) ==
    [key \in {briefId} \X (1..REQUIRED_STORY_COUNT) |->
        [cluster_id |-> NULL, headline |-> "Earlier headline",
         summary |-> "Earlier summary"]]

\* no brief for the first window, a draft, or a published brief
BriefStates == {"none", "draft", "published"}

\* the brief of the first window before the requests: none, a draft or a published
\* one, each with its stories
BriefTables(state) ==
    IF state = "none"
    THEN [daily_briefs |-> <<>>, brief_stories |-> <<>>]
    ELSE [daily_briefs |->
            [date \in {WindowA} |->
                [id |-> 0, status |-> state,
                 published_at |-> IF state = "published"
                                  THEN <<toWindowBoundsUtc(WindowB).end>>
                                  ELSE NULL]],
          brief_stories |-> OldStories(0)]

\* the tables after one ranking run on each window, the first window with or
\* without a brief
InitDraft ==
    /\ \E n \in DraftCounts :
        LET unranked == MakeClusters(n)
            idsOf(windowDate) ==
                Ascending({c \in DOMAIN unranked :
                                unranked[c].window_date = windowDate})
        IN  /\ dataset = MakeDataset(n)
            /\ \E rankedA \in {RankedFrom(unranked, WindowA,
                                          [ascending |-> TRUE, ids |-> idsOf(WindowA)])} :
                \E scoredA \in {UpsertScores(unranked, WindowA, rankedA)} :
                    \E rankedB \in {RankedFrom(scoredA, WindowB,
                                               [ascending |-> TRUE,
                                                ids |-> idsOf(WindowB)])} :
                        LET topA == Take(rankedA, TOP_LIMIT)
                            topB == Take(rankedB, TOP_LIMIT)
                        IN  /\ story_clusters = UpsertScores(scoredA, WindowB, rankedB)
                            /\ cluster_candidates =
                                    CandidateRows(WindowA, topA, 1)
                                        \cup CandidateRows(WindowB, topB, 1 + Len(topA))
                            /\ nextRowId = 1 + Len(topA) + Len(topB)
                            /\ ranked = rankedB
                            /\ response = Reply("rank", WindowB, 200, "",
                                                RankResult(WindowB, rankedB, topB))
    /\ \E state \in BriefStates :
        /\ daily_briefs = BriefTables(state).daily_briefs
        /\ brief_stories = BriefTables(state).brief_stories
    /\ nightly = <<>>
    /\ runs = <<>>
    /\ drafting = <<>>
    /\ ops = 0
    /\ articles = <<>>
    /\ cursor = 1
    /\ clusters = <<>>
    /\ best = NoBest

NextDraft ==
    \/ ReorderInvalidRequest
    \/ ReorderLoadErrorRequest
    \/ ReorderNotFoundRequest
    \/ ReorderMismatchRequest
    \/ ReorderUpdateErrorRequest
    \/ ReorderOkRequest
    \/ DraftBadDate
    \/ DraftError
    \/ DraftOk

SpecDraft == InitDraft /\ [][NextDraft]_vars

(***************************************************************************)
(* The library calls of the nightly pipeline, each as the set of its       *)
(* outcomes in the current state: the tables it leaves, the number of ids  *)
(* it generated and the error it threw ("" when it returned).              *)
(***************************************************************************)
\* the items two feeds deliver: four articles of the first window, then one
\* more of the first window and one of the second
Wire ==
    <<  <<  [id |-> 11, title |-> "Storm", words |-> <<"storm">>, at |-> <<1>>],
            [id |-> 12, title |-> "Vote", words |-> <<"vote">>, at |-> <<2>>],
            [id |-> 13, title |-> "Strike", words |-> <<"strike">>, at |-> <<3>>],
            [id |-> 14, title |-> "Merger", words |-> <<"merger">>, at |-> <<4>>] >>,
        <<  [id |-> 15, title |-> "Harvest", words |-> <<"harvest">>, at |-> <<6>>],
            [id |-> 16, title |-> "Storm again", words |-> <<"storm">>, at |-> <<30>>] >>
    >>

FeedIds == <<"s1", "s2">>

\* part_011:196-222: the row built for an item of a feed
ArticleRow(feed, item) ==
    [id           |-> item.id,
     title        |-> item.title,
     words        |-> item.words,
     publisher    |-> <<FeedSources[FeedIds[feed]]>>,
     source_id    |-> <<FeedIds[feed]>>,
     published_at |-> item.at]

\* part_011:252-254: the upsert of the rows of the feeds that did not fail
UpsertArticles(table, feeds) ==
    LET rows == UNION {{ArticleRow(feed, Wire[feed][i]) : i \in DOMAIN Wire[feed]} :
                        feed \in feeds}
    IN  [id \in DOMAIN table \cup {row.id : row \in rows} |->
            IF \E row \in rows : row.id = id
            THEN CHOOSE row \in rows : row.id = id
            ELSE table[id]]

\* part_011:160-277: the read of the feed sources fails, or every feed is
\* fetched and a feed that fails is counted and passed over
ingestRssForWindowDate(windowDate) ==
    {[articles |-> dataset.articles, error |-> "Failed to load feed sources",
      result |-> <<>>]}
    \cup
    {[articles |-> UpsertArticles(dataset.articles, feeds), error |-> "",
      result |-> [windowDate |-> windowDate, feedsProcessed |-> Len(Wire),
                  feedsFailed |-> Len(Wire) - Cardinality(feeds)]] :
        feeds \in SUBSET DOMAIN Wire}

ClusterOutcome(db, created, error, result) ==
    [db |-> db, created |-> created, error |-> error, result |-> result]

\* cluster.ts:232-358, every outcome of one call
clusterArticlesForWindowDate(windowDate, replace) ==
    LET cleared  == Cleared(windowDate, replace)
        replaced == ReplacedClusterCount(windowDate, replace)
        orders   == ArticleOrders(windowDate)
    IN  (IF replace
         THEN {ClusterOutcome(Tables, 0, "Failed to load previous clusters", <<>>),
               ClusterOutcome(Tables, 0, "Failed to clear previous clusters", <<>>)}
         ELSE {})
        \cup {ClusterOutcome(cleared, 0, "Failed to load articles for clustering", <<>>)}
        \cup
        (IF orders = {<<>>}
         THEN {ClusterOutcome(cleared, 0, "",
                              EmptyClusterResult(windowDate, replace, replaced))}
         ELSE {ClusterOutcome(cleared, 0, "Failed to insert clusters", <<>>)}
              \cup UNION {UNION {UNION {
                    {ClusterOutcome(inserted, Len(workingClusters),
                                    "Failed to insert cluster memberships", <<>>)}
                    \cup
                    {ClusterOutcome(
                        InsertMemberships(
                            inserted,
                            MembershipsOf(workingClusters,
                                          [i \in 1..returned |-> nextRowId + i - 1], 1)),
                        Len(workingClusters), "",
                        ClusterResult(windowDate, replace, replaced, Len(order),
                                      workingClusters)) :
                        returned \in {Len(workingClusters), Len(workingClusters) - 1}}
                    : inserted \in {InsertClusters(cleared, windowDate, workingClusters,
                                                   nextRowId)}}
                    : workingClusters \in
                        {buildWorkingClusters(ToClusterArticles(dataset.articles, order))}}
                    : order \in orders})

RankOutcome(clusterTable, candidates, created, error, rankedList, result) ==
    [story_clusters |-> clusterTable, cluster_candidates |-> candidates,
     created |-> created, error |-> error, ranked |-> rankedList, result |-> result]

RankThrows(clusterTable, candidates, error) ==
    RankOutcome(clusterTable, candidates, 0, error, ranked, <<>>)

\* rank/route.ts:178-329, every outcome of one call
rankClustersForWindowDate(windowDate) ==
    LET clusterIds   == ClustersOf(windowDate)
        memberships  == MembershipRows(clusterIds, TRUE)
        articlesById == ArticlesById(memberships, toWindowBoundsUtc(windowDate))
        prior        == CandidatesOf(windowDate)
    IN  {RankThrows(story_clusters, cluster_candidates, "Failed to load clusters")}
        \cup
        (IF clusterIds = {}
         THEN {RankOutcome(story_clusters, kept, 0, "", <<>>, EmptyRankResult(windowDate)) :
                    kept \in {cluster_candidates, cluster_candidates \ prior}}
         ELSE {RankThrows(story_clusters, cluster_candidates,
                          "Failed to load cluster memberships")}
              \cup (IF memberships # <<>>
                    THEN {RankThrows(story_clusters, cluster_candidates,
                                     "Failed to load cluster articles")}
                    ELSE {})
              \cup (IF \E id \in DOMAIN articlesById : ~IsNull(articlesById[id].source_id)
                    THEN {RankThrows(story_clusters, cluster_candidates,
                                     "Failed to load feed sources")}
                    ELSE {})
              \cup UNION {UNION {UNION {
                    {RankThrows(story_clusters, cluster_candidates,
                                "Failed to update cluster scores"),
                     RankThrows(scored, cluster_candidates,
                                "Failed to clear prior candidates"),
                     RankThrows(scored, cluster_candidates \ prior,
                                "Failed to save ranked candidates"),
                     RankOutcome(scored,
                                 (cluster_candidates \ prior)
                                    \cup CandidateRows(windowDate,
                                                       Take(rankedList, TOP_LIMIT),
                                                       nextRowId),
                                 Len(Take(rankedList, TOP_LIMIT)), "", rankedList,
                                 RankResult(windowDate, rankedList,
                                            Take(rankedList, TOP_LIMIT)))}
                    : scored \in {UpsertScores(story_clusters, windowDate, rankedList)}}
                    : rankedList \in {Ranked(windowDate, order)}}
                    : order \in RowOrders(clusterIds)})

(***************************************************************************)
(* The nightly pipeline (cron/nightly/route.ts:36-81): ingest, cluster     *)
(* with replace, rank and draft, one after the other for one window date.  *)
(* `nightly` holds the window date of the run, the steps that ran with the *)
(* error each threw, and the status of the response (0 while it runs).     *)
(* The check of the request and the first step make one action, every      *)
(* later step is one action per outcome.                                   *)
(***************************************************************************)
NIGHTLY_STEPS == <<"ingest", "cluster", "rank", "draft">>

CRON_SECRET == "secret"

\* lines 37-58: "" when the request is let in
NightlyRejection(configured, provided, windowDate) ==
    IF ~configured THEN [status |-> 500,
                         error |-> "CRON_SECRET is not configured on the server."]
    ELSE IF provided = "" \/ provided # CRON_SECRET
         THEN [status |-> 401, error |-> "Unauthorized cron request."]
    ELSE IF ~DATE_PATTERN(windowDate)
         THEN [status |-> 400, error |-> "windowDate must be in YYYY-MM-DD format."]
    ELSE [status |-> 0, error |-> ""]

NightlyRequests ==
    [configured : BOOLEAN, provided : {"", CRON_SECRET, "guess"},
     windowDate : WindowDates \cup MalformedDates]

\* the run is under way and `step` is the next one
NightlyAt(step) ==
    /\ nightly # <<>>
    /\ nightly.status = 0
    /\ Len(nightly.results) < Len(NIGHTLY_STEPS)
    /\ NIGHTLY_STEPS[Len(nightly.results) + 1] = step

\* mutation of StepThrew: the error is put aside and the run goes on
StepThrewGoesOn(run, step, error) ==
    /\ nightly' = [run EXCEPT !.results = Append(@, [step |-> step, error |-> error])]
    /\ UNCHANGED response

\* lines 75-79: the step threw, the run answers 500 with the message
StepThrew(run, step, error) ==
    /\ nightly' = [run EXCEPT !.results = Append(@, [step |-> step, error |-> error]),
                              !.status = 500]
    /\ response' = Reply("nightly", run.windowDate, 500, error, <<>>)

\* lines 61-64: the step returned, the run goes on
StepReturned(run, step) ==
    /\ nightly' = [run EXCEPT !.results = Append(@, [step |-> step, error |-> ""])]
    /\ UNCHANGED response

\* what no step of the nightly run writes
NightlyFrame == UNCHANGED <<clusterVars, runs, drafting>>

\* lines 37-58: the request is turned away
NightlyRejected ==
    /\ nightly = <<>>
    /\ ops < MaxOps
    /\ ops' = ops + 1
    /\ \E request \in NightlyRequests :
        LET rejection == NightlyRejection(request.configured, request.provided,
                                          request.windowDate)
        IN  /\ rejection.status # 0
            /\ response' = Reply("nightly", request.windowDate, rejection.status,
                                 rejection.error, <<>>)
    /\ NightlyFrame
    /\ UNCHANGED <<story_clusters, cluster_candidates, dataset, nextRowId, ranked,
                   daily_briefs, brief_stories, nightly>>

NewRun(windowDate) == [windowDate |-> windowDate, results |-> <<>>, status |-> 0]

\* lines 37-61: the request is let in and the ingestion returns
NightlyIngest ==
    /\ nightly = <<>>
    /\ ops < MaxOps
    /\ ops' = ops + 1
    /\ \E request \in NightlyRequests :
        /\ NightlyRejection(request.configured, request.provided,
                            request.windowDate).status = 0
        /\ \E outcome \in ingestRssForWindowDate(request.windowDate) :
            /\ outcome.error = ""
            /\ dataset' = [dataset EXCEPT !.articles = outcome.articles]
            /\ StepReturned(NewRun(request.windowDate), "ingest")
    /\ NightlyFrame
    /\ UNCHANGED <<story_clusters, cluster_candidates, nextRowId, ranked,
                   daily_briefs, brief_stories>>

\* lines 37-61 and 75-79: the request is let in and the ingestion throws
NightlyIngestFails ==
    /\ nightly = <<>>
    /\ ops < MaxOps
    /\ ops' = ops + 1
    /\ \E request \in NightlyRequests :
        /\ NightlyRejection(request.configured, request.provided,
                            request.windowDate).status = 0
        /\ \E outcome \in ingestRssForWindowDate(request.windowDate) :
            /\ outcome.error # ""
            /\ dataset' = [dataset EXCEPT !.articles = outcome.articles]
            /\ StepThrew(NewRun(request.windowDate), "ingest", outcome.error)
    /\ NightlyFrame
    /\ UNCHANGED <<story_clusters, cluster_candidates, nextRowId, ranked,
                   daily_briefs, brief_stories>>

\* line 62: clusterArticlesForWindowDate(supabase, windowDate, true) returns
NightlyCluster ==
    /\ NightlyAt("cluster")
    /\ \E outcome \in clusterArticlesForWindowDate(nightly.windowDate, TRUE) :
        /\ outcome.error = ""
        /\ Store(outcome.db)
        /\ nextRowId' = nextRowId + outcome.created
        /\ StepReturned(nightly, "cluster")
    /\ NightlyFrame
    /\ UNCHANGED <<ops, ranked, daily_briefs, brief_stories>>

\* lines 62 and 75-79: the clustering throws
NightlyClusterFails ==
    /\ NightlyAt("cluster")
    /\ \E outcome \in clusterArticlesForWindowDate(nightly.windowDate, TRUE) :
        /\ outcome.error # ""
        /\ Store(outcome.db)
        /\ nextRowId' = nextRowId + outcome.created
        /\ StepThrew(nightly, "cluster", outcome.error)
    /\ NightlyFrame
    /\ UNCHANGED <<ops, ranked, daily_briefs, brief_stories>>

\* line 63: rankClustersForWindowDate returns
NightlyRank ==
    /\ NightlyAt("rank")
    /\ \E outcome \in rankClustersForWindowDate(nightly.windowDate) :
        /\ outcome.error = ""
        /\ story_clusters' = outcome.story_clusters
        /\ cluster_candidates' = outcome.cluster_candidates
        /\ nextRowId' = nextRowId + outcome.created
        /\ ranked' = outcome.ranked
        /\ StepReturned(nightly, "rank")
    /\ NightlyFrame
    /\ UNCHANGED <<ops, dataset, daily_briefs, brief_stories>>

\* lines 63 and 75-79: the ranking throws
NightlyRankFails ==
    /\ NightlyAt("rank")
    /\ \E outcome \in rankClustersForWindowDate(nightly.windowDate) :
        /\ outcome.error # ""
        /\ story_clusters' = outcome.story_clusters
        /\ cluster_candidates' = outcome.cluster_candidates
        /\ nextRowId' = nextRowId + outcome.created
        /\ ranked' = outcome.ranked
        /\ StepThrew(nightly, "rank", outcome.error)
    /\ NightlyFrame
    /\ UNCHANGED <<ops, dataset, daily_briefs, brief_stories>>

\* lines 64-74: generateDraftFromTopClusters returns and the run answers with
\* the summary
NightlyDraft ==
    /\ NightlyAt("draft")
    /\ \E outcome \in generateDraftFromTopClusters(nightly.windowDate) :
        /\ outcome.error = ""
        /\ daily_briefs' = outcome.daily_briefs
        /\ brief_stories' = outcome.brief_stories
        /\ nextRowId' = nextRowId + outcome.created
        /\ nightly' = [nightly EXCEPT
                            !.results = Append(@, [step |-> "draft", error |-> ""]),
                            !.status = 200]
        /\ response' = Reply("nightly", nightly.windowDate, 200, "",
                             [windowDate |-> nightly.windowDate,
                              draft |-> DraftResult(nightly.windowDate, outcome.briefId)])
    /\ NightlyFrame
    /\ UNCHANGED <<ops, story_clusters, cluster_candidates, dataset, ranked>>

\* lines 64 and 75-79: the draft generation throws
NightlyDraftFails ==
    /\ NightlyAt("draft")
    /\ \E outcome \in generateDraftFromTopClusters(nightly.windowDate) :
        /\ outcome.error # ""
        /\ daily_briefs' = outcome.daily_briefs
        /\ brief_stories' = outcome.brief_stories
        /\ nextRowId' = nextRowId + outcome.created
        /\ StepThrew(nightly, "draft", outcome.error)
    /\ NightlyFrame
    /\ UNCHANGED <<ops, story_clusters, cluster_candidates, dataset, ranked>>

\* no article is stored yet, or the first feed was ingested, clustered and
\* ranked by an earlier run on the first window
NightlyTables ==
    \/ /\ dataset = [articles |-> <<>>, cluster_articles |-> <<>>,
                     feed_sources |-> FeedSources]
       /\ story_clusters = <<>>
       /\ cluster_candidates = {}
       /\ nextRowId = 1
       /\ ranked = <<>>
       /\ response = <<>>
    \/ \E table \in {UpsertArticles(<<>>, {1})} :
        \E order \in ArticleOrdersOf(table, WindowA) :
            \E workingClusters \in
                    {buildWorkingClusters(ToClusterArticles(table, order))} :
                \E db \in {InsertMemberships(
                                InsertClusters(EmptyTables, WindowA, workingClusters, 1),
                                MembershipsOf(workingClusters,
                                              [i \in DOMAIN workingClusters |-> i], 1))} :
                    /\ dataset = [articles |-> table,
                                  cluster_articles |-> db.cluster_articles,
                                  feed_sources |-> FeedSources]
                    /\ \E rankedA \in
                            {RankedFrom(db.story_clusters, WindowA,
                                        [ascending |-> TRUE,
                                         ids |-> Ascending(DOMAIN db.story_clusters)])} :
                        /\ story_clusters =
                                UpsertScores(db.story_clusters, WindowA, rankedA)
                        /\ cluster_candidates =
                                CandidateRows(WindowA, Take(rankedA, TOP_LIMIT),
                                              1 + Len(workingClusters))
                        /\ nextRowId = 1 + Len(workingClusters) + Len(Take(rankedA, TOP_LIMIT))
                        /\ ranked = rankedA
                        /\ response = Reply("rank", WindowA, 200, "",
                                            RankResult(WindowA, rankedA,
                                                       Take(rankedA, TOP_LIMIT)))

InitNightly ==
    /\ NightlyTables
    /\ \E state \in BriefStates :
        /\ daily_briefs = BriefTables(state).daily_briefs
        /\ brief_stories = BriefTables(state).brief_stories
    /\ nightly = <<>>
    /\ runs = <<>>
    /\ drafting = <<>>
    /\ ops = 0
    /\ articles = <<>>
    /\ cursor = 1
    /\ clusters = <<>>
    /\ best = NoBest

NextNightly ==
    \/ NightlyRejected
    \/ NightlyIngest
    \/ NightlyIngestFails
    \/ NightlyCluster
    \/ NightlyClusterFails
    \/ NightlyRank
    \/ NightlyRankFails
    \/ NightlyDraft
    \/ NightlyDraftFails

SpecNightly == InitNightly /\ [][NextNightly]_vars

(***************************************************************************)
(* draftBriefWithAi (src/unnamed/part_002:136-215).  `drafting` holds the  *)
(* locals of one call: queue, statuses, updatedStories, what each worker   *)
(* is at, the stories draftStoryForBrief was called for, and the answer.   *)
(* JavaScript runs a worker from one await to the next without             *)
(* interruption, so a step is: the call up to the first await of every     *)
(* worker; the settling of one awaited draftStoryForBrief with what its    *)
(* worker does up to its next await; the return after Promise.all.  A      *)
(* story is identified by its key <<brief_id, position>>.                  *)
(***************************************************************************)
MaxStories == 4         \* stories of the brief: 0..MaxStories

DEFAULT_MAX_CONCURRENCY == 2

\* the values passed as maxConcurrency
ConcurrencyChoices == (-1)..(DEFAULT_MAX_CONCURRENCY + 1)

\* lines 120-134: the stories of the brief by ascending position
loadBriefStories(briefId) ==
    LET positions == Ascending({key[2] : key \in {k \in DOMAIN brief_stories :
                                                    k[1] = briefId}})
    IN  [i \in DOMAIN positions |->
            [id         |-> <<briefId, positions[i]>>,
             position   |-> positions[i],
             cluster_id |-> brief_stories[<<briefId, positions[i]>>].cluster_id]]

\* line 149: Math.max(1, Math.min(maxConcurrency, queue.length))
WorkerCount(maxConcurrency, queueLength) ==
    LET least == IF maxConcurrency < queueLength THEN maxConcurrency ELSE queueLength
    IN  IF least < 1 THEN 1 ELSE least

StoryStatus(story, ok, message) ==
    [storyId |-> story.id, position |-> story.position, ok |-> ok, message |-> message]

\* mutation of RunWorker: a story without cluster is passed over without a
\* status
RECURSIVE RunWorkerSilentSkip(_, _)
RunWorkerSilentSkip(d, w) ==
    IF d.queue = <<>> THEN [d EXCEPT !.workers[w] = [at |-> "done", story |-> NULL]]
    ELSE LET story == Head(d.queue)
             rest  == [d EXCEPT !.queue = Tail(@)]
         IN  IF IsNull(story.cluster_id)
             THEN RunWorkerSilentSkip(rest, w)
             ELSE [rest EXCEPT !.workers[w] = [at |-> "await", story |-> <<story>>],
                               !.calls = Append(@, story.id)]

\* lines 152-204: a worker from the head of its loop to its next await, or to
\* its end when the queue is empty
RECURSIVE RunWorker(_, _)
RunWorker(d, w) ==
    IF d.queue = <<>> THEN [d EXCEPT !.workers[w] = [at |-> "done", story |-> NULL]]
    ELSE LET story == Head(d.queue)
             rest  == [d EXCEPT !.queue = Tail(@)]
         IN  IF IsNull(story.cluster_id)
             THEN RunWorker([rest EXCEPT !.statuses =
                                            Append(@, StoryStatus(story, FALSE,
                                                                  "No cluster assigned."))],
                            w)
             ELSE [rest EXCEPT !.workers[w] = [at |-> "await", story |-> <<story>>],
                               !.calls = Append(@, story.id)]

\* line 151: the workers are started one after the other
RECURSIVE StartWorkers(_, _)
StartWorkers(d, w) ==
    IF w > Len(d.workers) THEN d ELSE StartWorkers(RunWorker(d, w), w + 1)

\* a.position - b.position, stable
RECURSIVE InsertByPosition(_, _)
InsertByPosition(sorted, entry) ==
    IF sorted = <<>> THEN <<entry>>
    ELSE IF entry.position < Head(sorted).position THEN <<entry>> \o sorted
    ELSE <<Head(sorted)>> \o InsertByPosition(Tail(sorted), entry)

RECURSIVE SortByPosition(_, _)
SortByPosition(entries, sorted) ==
    IF entries = <<>> THEN sorted
    ELSE SortByPosition(Tail(entries), InsertByPosition(sorted, Head(entries)))

\* what no step of the call writes
DraftingFrame ==
    UNCHANGED <<story_clusters, cluster_candidates, dataset, nextRowId, ranked,
                daily_briefs, nightly, runs, clusterVars>>

Answer(status, error, statuses, stories) ==
    [status |-> status, error |-> error, statuses |-> statuses, stories |-> stories]

\* the locals at line 149
NewCall(briefId, maxConcurrency, stories) ==
    [briefId        |-> briefId,
     queue          |-> stories,
     statuses       |-> <<>>,
     updatedStories |-> <<>>,
     workers        |-> [w \in 1..WorkerCount(maxConcurrency, Len(stories)) |->
                            [at |-> "new", story |-> NULL]],
     calls          |-> <<>>,
     answer         |-> NULL]

\* lines 141-144, and the load of line 141 failing
DraftBriefFails ==
    /\ drafting = <<>>
    /\ ops < MaxOps
    /\ ops' = ops + 1
    /\ \E date \in DOMAIN daily_briefs, maxConcurrency \in ConcurrencyChoices :
        LET briefId == daily_briefs[date].id
        IN  \E answer \in
                {Answer(500, "Failed to load brief stories", <<>>, <<>>)}
                \cup (IF loadBriefStories(briefId) = <<>>
                      THEN {Answer(404, "No stories found for this brief.", <<>>, <<>>)}
                      ELSE {}) :
                /\ drafting' = [NewCall(briefId, maxConcurrency, <<>>) EXCEPT
                                    !.workers = <<>>, !.answer = <<answer>>]
                /\ response' = [op |-> "draftBriefWithAi", status |-> answer.status,
                                error |-> answer.error]
    /\ UNCHANGED brief_stories
    /\ DraftingFrame

\* lines 141-204: the stories are loaded and every worker runs to its first
\* await
DraftBriefStart ==
    /\ drafting = <<>>
    /\ ops < MaxOps
    /\ ops' = ops + 1
    /\ \E date \in DOMAIN daily_briefs, maxConcurrency \in ConcurrencyChoices :
        LET briefId == daily_briefs[date].id
            stories == loadBriefStories(briefId)
        IN  /\ stories # <<>>
            /\ drafting' = StartWorkers(NewCall(briefId, maxConcurrency, stories), 1)
    /\ UNCHANGED <<brief_stories, response>>
    /\ DraftingFrame

\* the call is under way and worker w awaits draftStoryForBrief
Awaiting(w) ==
    /\ drafting # <<>>
    /\ IsNull(drafting.answer)
    /\ w \in DOMAIN drafting.workers
    /\ drafting.workers[w].at = "await"

\* lines 169-186 and part_002:95-116: the draft of a story is written and
\* returned; its worker records it and goes on
DraftResolves ==
    /\ drafting # <<>>
    /\ \E worker \in DOMAIN drafting.workers :
        /\ Awaiting(worker)
        /\ LET story == Val(drafting.workers[worker].story)
           IN  /\ story.id \in DOMAIN brief_stories
               /\ brief_stories' =
                    [brief_stories EXCEPT ![story.id] =
                        [@ EXCEPT !.headline = "Drafted headline",
                                  !.summary = "Drafted summary"]]
               /\ drafting' =
                    RunWorker([drafting EXCEPT
                                !.updatedStories =
                                    Append(@, [id |-> story.id,
                                               position |-> story.position]),
                                !.statuses =
                                    Append(@, StoryStatus(story, TRUE, "Drafted"))],
                              worker)
    /\ UNCHANGED <<ops, response>>
    /\ DraftingFrame

\* the failures of draftStoryForBrief (part_002:78-80, 112-114)
DraftingErrors == {"Failed to load story", "Failed to update story draft"}

\* lines 187-203: draftStoryForBrief throws; its worker records the message
\* and goes on
DraftRejects ==
    /\ drafting # <<>>
    /\ \E worker \in DOMAIN drafting.workers, message \in DraftingErrors :
        /\ Awaiting(worker)
        /\ LET story == Val(drafting.workers[worker].story)
           IN  drafting' =
                    RunWorker([drafting EXCEPT
                                !.statuses =
                                    Append(@, StoryStatus(story, FALSE, message))],
                              worker)
    /\ UNCHANGED <<ops, response, brief_stories>>
    /\ DraftingFrame

\* lines 207-214: every worker has ended; the lists are sorted and returned
DraftBriefReturn ==
    /\ drafting # <<>>
    /\ IsNull(drafting.answer)
    /\ \A worker \in DOMAIN drafting.workers : drafting.workers[worker].at = "done"
    /\ drafting' =
        [drafting EXCEPT
            !.statuses = SortByPosition(@, <<>>),
            !.updatedStories = SortByPosition(@, <<>>),
            !.answer = <<Answer(200, "", SortByPosition(drafting.statuses, <<>>),
                                SortByPosition(drafting.updatedStories, <<>>))>>]
    /\ response' = [op |-> "draftBriefWithAi", status |-> 200, error |-> ""]
    /\ UNCHANGED <<ops, brief_stories>>
    /\ DraftingFrame

\* the stories of the brief of the first window: at 1..count, each with or
\* without a cluster
StoryTables ==
    UNION {{[key \in {0} \X (1..count) |->
                [cluster_id |-> IF key[2] \in assigned THEN <<key[2]>> ELSE NULL,
                 headline   |-> "Cluster " \o IdText(key[2]),
                 summary    |-> "Summary pending"]] :
            assigned \in SUBSET (1..count)} :
        count \in 0..MaxStories}

InitDrafting ==
    /\ dataset = MakeDataset(MaxStories)
    /\ story_clusters = MakeClusters(MaxStories)
    /\ cluster_candidates = {}
    /\ nextRowId = 1
    /\ ranked = <<>>
    /\ response = <<>>
    /\ daily_briefs = BriefTables("draft").daily_briefs
    /\ brief_stories \in StoryTables
    /\ nightly = <<>>
    /\ runs = <<>>
    /\ drafting = <<>>
    /\ ops = 0
    /\ articles = <<>>
    /\ cursor = 1
    /\ clusters = <<>>
    /\ best = NoBest

NextDrafting ==
    \/ DraftBriefFails
    \/ DraftBriefStart
    \/ DraftResolves
    \/ DraftRejects
    \/ DraftBriefReturn

\* an awaited draft settles and a settled Promise.all resumes the call
SpecDrafting == InitDrafting /\ [][NextDrafting]_vars /\ WF_vars(NextDrafting)

(***************************************************************************)
(* Two requests served at the same time.  Each run is at one of its        *)
(* storage calls; a step is one storage call of one run together with the  *)
(* computation that follows it up to the next call.  `runs` holds, for     *)
(* each run, the request, the call it is at, its locals, its answer, and   *)
(* the rows of its window when it was started.  The reads of articles and  *)
(* feed_sources, tables no run writes, are one step of a ranking run.      *)
(***************************************************************************)
Peer(r) == IF r = 1 THEN 2 ELSE 1

\* the clusters, memberships and candidates of a window
WindowRowsOf(db, windowDate) ==
    LET ids == {c \in DOMAIN db.story_clusters :
                    db.story_clusters[c].window_date = windowDate}
    IN  [story_clusters     |-> [c \in ids |-> db.story_clusters[c]],
         cluster_articles   |-> SelectSeq(db.cluster_articles,
                                          LAMBDA m : m.cluster_id \in ids),
         cluster_candidates |-> {row \in db.cluster_candidates :
                                    row.window_date = windowDate}]

WindowRows(windowDate) == WindowRowsOf(Tables, windowDate)

\* the first storage call of a request
FirstCall(kind, replace) ==
    CASE kind = "cluster" -> IF replace THEN "previous" ELSE "articles"
      [] kind = "rank"    -> "clusters"
      [] kind = "reorder" -> "load"

StartedRun(kind, windowDate, replace, list) ==
    [kind |-> kind, windowDate |-> windowDate, replace |-> replace, list |-> list,
     at |-> FirstCall(kind, replace), status |-> 0, error |-> "", locals |-> <<>>,
     moved |-> FALSE, overlapped |-> FALSE, start |-> WindowRows(windowDate)]

\* run r has made a storage call and has not answered
MidWay(r) == runs[r].moved /\ runs[r].status = 0

\* run r is at the storage call `at` of a request of this kind
RunAt(r, kind, at) ==
    /\ runs[r].status = 0
    /\ runs[r].kind = kind
    /\ runs[r].at = at

\* run r goes on to its next storage call
GoesTo(r, at, locals) ==
    runs' = [runs EXCEPT ![r] = [@ EXCEPT !.at = at, !.locals = locals,
                                          !.moved = TRUE,
                                          !.overlapped = @ \/ MidWay(Peer(r))]]

\* run r answers
Answers(r, status, error, locals) ==
    runs' = [runs EXCEPT ![r] = [@ EXCEPT !.at = "done", !.status = status,
                                          !.error = error, !.locals = locals,
                                          !.moved = TRUE,
                                          !.overlapped = @ \/ MidWay(Peer(r))]]

\* what no step of a run writes
RunsFrame ==
    UNCHANGED <<clusterVars, ops, ranked, response, daily_briefs, brief_stories,
                nightly, drafting>>

\* cluster.ts:241-250
ClusterReadPrevious ==
    /\ \E r \in DOMAIN runs :
        /\ RunAt(r, "cluster", "previous")
        /\ GoesTo(r, "clear",
                  [replacedClusterCount |-> Cardinality(ClustersOf(runs[r].windowDate))])
    /\ UNCHANGED <<story_clusters, cluster_candidates, dataset, nextRowId>>
    /\ RunsFrame

\* cluster.ts:252-255
ClusterClear ==
    /\ \E r \in DOMAIN runs :
        /\ RunAt(r, "cluster", "clear")
        /\ Store(ClearWindow(Tables, runs[r].windowDate))
        /\ GoesTo(r, "articles", runs[r].locals)
    /\ UNCHANGED nextRowId
    /\ RunsFrame

\* cluster.ts:262-297
ClusterReadArticles ==
    /\ \E r \in DOMAIN runs :
        /\ RunAt(r, "cluster", "articles")
        /\ \E order \in ArticleOrders(runs[r].windowDate) :
            IF order = <<>>
            THEN Answers(r, 200, "", <<>>)
            ELSE GoesTo(r, "insert",
                        [workingClusters |->
                            buildWorkingClusters(ToClusterArticles(dataset.articles,
                                                                   order))])
    /\ UNCHANGED <<story_clusters, cluster_candidates, dataset, nextRowId>>
    /\ RunsFrame

\* the other run is a clustering run with replace that has cleared the window
PeerCleared(r) ==
    /\ runs[Peer(r)].kind = "cluster"
    /\ runs[Peer(r)].replace
    /\ runs[Peer(r)].windowDate = runs[r].windowDate
    /\ runs[Peer(r)].at \in {"articles", "insert", "memberships", "done"}
    /\ runs[Peer(r)].moved

\* cluster.ts:299-330: the clusters are inserted; the insert returns the ids
\* of all rows or of fewer
ClusterInsert ==
    /\ \E r \in DOMAIN runs :
        /\ RunAt(r, "cluster", "insert")
        /\ LET workingClusters == runs[r].locals.workingClusters
           IN  /\ Store(InsertClusters(Tables, runs[r].windowDate, workingClusters,
                                       nextRowId))
               /\ nextRowId' = nextRowId + Len(workingClusters)
               /\ \E returned \in {Len(workingClusters), Len(workingClusters) - 1} :
                    LET createdClusters == [i \in 1..returned |-> nextRowId + i - 1]
                        membershipRows  == MembershipsOf(workingClusters,
                                                         createdClusters, 1)
                        locals == [workingClusters |-> workingClusters,
                                   firstId         |-> nextRowId,
                                   createdClusters |-> createdClusters,
                                   membershipRows  |-> membershipRows,
                                   afterPeerClear  |-> PeerCleared(r)]
                    IN  IF membershipRows = <<>>
                        THEN Answers(r, 200, "", locals)
                        ELSE GoesTo(r, "memberships", locals)
    /\ RunsFrame

\* cluster.ts:332-340 with week2_pipeline.sql:50: the insert fails when one of
\* the clusters is gone
ClusterInsertMemberships ==
    /\ \E r \in DOMAIN runs :
        /\ RunAt(r, "cluster", "memberships")
        /\ LET membershipRows == runs[r].locals.membershipRows
           IN  IF \A i \in DOMAIN membershipRows :
                    membershipRows[i].cluster_id \in DOMAIN story_clusters
               THEN /\ Store(InsertMemberships(Tables, membershipRows))
                    /\ Answers(r, 200, "", runs[r].locals)
               ELSE /\ UNCHANGED <<story_clusters, cluster_candidates, dataset>>
                    /\ Answers(r, 500, "Failed to insert cluster memberships",
                               runs[r].locals)
    /\ UNCHANGED nextRowId
    /\ RunsFrame

\* rank/route.ts:184-193
RankReadClusters ==
    /\ \E r \in DOMAIN runs :
        /\ RunAt(r, "rank", "clusters")
        /\ \E order \in RowOrders(ClustersOf(runs[r].windowDate)) :
            IF order.ids = <<>>
            THEN GoesTo(r, "empty", <<>>)
            ELSE GoesTo(r, "memberships",
                        [order    |-> order,
                         clusters |-> ClusterRows(story_clusters, order.ids)])
    /\ UNCHANGED <<story_clusters, cluster_candidates, dataset, nextRowId>>
    /\ RunsFrame

\* mutation of ClearCandidates: the delete is not narrowed to the window
ClearCandidatesEverywhere(table, windowDate) ==
    {row \in table : FALSE}

\* rank/route.ts:195 and 289-292: .delete().eq("window_date", windowDate)
ClearCandidates(table, windowDate) ==
    {row \in table : row.window_date # windowDate}

\* rank/route.ts:194-203: the result of the delete is not looked at
RankDeleteUnchecked ==
    /\ \E r \in DOMAIN runs :
        /\ RunAt(r, "rank", "empty")
        /\ \E deleteFails \in BOOLEAN :
            cluster_candidates' =
                IF deleteFails THEN cluster_candidates
                ELSE ClearCandidates(cluster_candidates, runs[r].windowDate)
        /\ Answers(r, 200, "", [ranked |-> <<>>])
    /\ UNCHANGED <<story_clusters, dataset, nextRowId>>
    /\ RunsFrame

\* rank/route.ts:207-217
RankReadMemberships ==
    /\ \E r \in DOMAIN runs :
        /\ RunAt(r, "rank", "memberships")
        /\ GoesTo(r, "articles",
                  [clusters    |-> runs[r].locals.clusters,
                   memberships |->
                        MembershipRows(Range(runs[r].locals.order.ids),
                                       runs[r].locals.order.ascending)])
    /\ UNCHANGED <<story_clusters, cluster_candidates, dataset, nextRowId>>
    /\ RunsFrame

\* rank/route.ts:219-266
RankReadArticles ==
    /\ \E r \in DOMAIN runs :
        /\ RunAt(r, "rank", "articles")
        /\ LET bounds       == toWindowBoundsUtc(runs[r].windowDate)
               memberships  == runs[r].locals.memberships
           IN  \E articlesById \in {ArticlesById(memberships, bounds)} :
                \E rankedList \in
                        {rankClusters(runs[r].locals.clusters, memberships, articlesById,
                                      SourceNameById(articlesById),
                                      bounds.recencyStart, bounds.end)} :
                    GoesTo(r, IF rankedList # <<>> THEN "scores" ELSE "candidates-clear",
                           [ranked |-> rankedList])
    /\ UNCHANGED <<story_clusters, cluster_candidates, dataset, nextRowId>>
    /\ RunsFrame

\* rank/route.ts:268-285: a cluster that is gone is inserted again
RankUpsertScores ==
    /\ \E r \in DOMAIN runs :
        /\ RunAt(r, "rank", "scores")
        /\ story_clusters' = UpsertScores(story_clusters, runs[r].windowDate,
                                          runs[r].locals.ranked)
        /\ GoesTo(r, "candidates-clear", runs[r].locals)
    /\ UNCHANGED <<cluster_candidates, dataset, nextRowId>>
    /\ RunsFrame

\* rank/route.ts:287-296
RankClearCandidates ==
    /\ \E r \in DOMAIN runs :
        /\ RunAt(r, "rank", "candidates-clear")
        /\ cluster_candidates' = ClearCandidates(cluster_candidates, runs[r].windowDate)
        /\ IF Take(runs[r].locals.ranked, TOP_LIMIT) # <<>>
           THEN GoesTo(r, "candidates", runs[r].locals)
           ELSE Answers(r, 200, "", runs[r].locals)
    /\ UNCHANGED <<story_clusters, dataset, nextRowId>>
    /\ RunsFrame

\* rank/route.ts:298-313 with week2_pipeline.sql:62: the insert fails when one
\* of the clusters is gone
RankInsertCandidates ==
    /\ \E r \in DOMAIN runs :
        /\ RunAt(r, "rank", "candidates")
        /\ LET top == Take(runs[r].locals.ranked, TOP_LIMIT)
           IN  IF \A i \in DOMAIN top : top[i].clusterId \in DOMAIN story_clusters
               THEN /\ cluster_candidates' =
                            cluster_candidates
                                \cup CandidateRows(runs[r].windowDate, top, nextRowId)
                    /\ nextRowId' = nextRowId + Len(top)
                    /\ Answers(r, 200, "", runs[r].locals)
               ELSE /\ UNCHANGED <<cluster_candidates, nextRowId>>
                    /\ Answers(r, 500, "Failed to save ranked candidates",
                               runs[r].locals)
    /\ UNCHANGED <<story_clusters, dataset>>
    /\ RunsFrame

\* part_014:32-110: the checks of the request and the read of the top rows
ReorderLoad ==
    /\ \E r \in DOMAIN runs :
        /\ RunAt(r, "reorder", "load")
        /\ LET windowDate == runs[r].windowDate
               list       == runs[r].list
           IN  IF ValidationError(windowDate, list) # ""
               THEN Answers(r, 400, ValidationError(windowDate, list), <<>>)
               ELSE \E topRows \in TopRowsChoices(cluster_candidates, windowDate) :
                        IF topRows = {}
                        THEN Answers(r, 404, "No candidates found for this windowDate.",
                                     <<>>)
                        ELSE IF MismatchError(topRows, list) # ""
                        THEN Answers(r, 400, MismatchError(topRows, list), <<>>)
                        ELSE GoesTo(r, "update",
                                    [topRows |-> topRows,
                                     candidateIdByCluster |->
                                        CandidateIdByCluster(topRows),
                                     index |-> 1])
    /\ UNCHANGED <<story_clusters, cluster_candidates, dataset, nextRowId>>
    /\ RunsFrame

\* part_014:112-136: one update of the loop
ReorderUpdate ==
    /\ \E r \in DOMAIN runs :
        /\ RunAt(r, "reorder", "update")
        /\ LET locals == runs[r].locals
               list   == runs[r].list
           IN  /\ cluster_candidates' =
                    UpdateRank(cluster_candidates,
                               locals.candidateIdByCluster[list[locals.index]],
                               locals.index)
               /\ IF locals.index = Len(list)
                  THEN Answers(r, 200, "", locals)
                  ELSE GoesTo(r, "update", [locals EXCEPT !.index = @ + 1])
    /\ UNCHANGED <<story_clusters, dataset, nextRowId>>
    /\ RunsFrame

\* the message of the storage call a run is at, when that call fails
\* (cluster.ts:247-338, rank/route.ts:190-311, part_014:78-126)
FailureAt(kind, at) ==
    CASE kind = "cluster" /\ at = "previous"    -> "Failed to load previous clusters"
      [] kind = "cluster" /\ at = "clear"       -> "Failed to clear previous clusters"
      [] kind = "cluster" /\ at = "articles"    -> "Failed to load articles for clustering"
      [] kind = "cluster" /\ at = "insert"      -> "Failed to insert clusters"
      [] kind = "cluster" /\ at = "memberships" -> "Failed to insert cluster memberships"
      [] kind = "rank" /\ at = "clusters"       -> "Failed to load clusters"
      [] kind = "rank" /\ at = "memberships"    -> "Failed to load cluster memberships"
      [] kind = "rank" /\ at = "articles"       -> "Failed to load cluster articles"
      [] kind = "rank" /\ at = "scores"         -> "Failed to update cluster scores"
      [] kind = "rank" /\ at = "candidates-clear" -> "Failed to clear prior candidates"
      [] kind = "rank" /\ at = "candidates"     -> "Failed to save ranked candidates"
      [] kind = "reorder" /\ at = "load"        -> "Failed to load candidates"
      [] kind = "reorder" /\ at = "update"      -> "Failed to update rank for cluster"

\* the storage call a run is at fails and the run answers 500; the delete of
\* rank/route.ts:195 is the one call whose failure is not looked at
RunFails ==
    /\ \E r \in DOMAIN runs :
        /\ runs[r].status = 0
        /\ runs[r].at # "empty"
        /\ runs[r].at = "load" => ValidationError(runs[r].windowDate, runs[r].list) = ""
        /\ Answers(r, 500, FailureAt(runs[r].kind, runs[r].at), runs[r].locals)
    /\ UNCHANGED <<story_clusters, cluster_candidates, dataset, nextRowId>>
    /\ RunsFrame

\* the requests: clustering with and without replace, ranking, and a reorder
\* that submits the stored top candidates in reverse
RunRequests(windowDate) ==
    {[kind |-> "cluster", replace |-> TRUE, list |-> <<>>],
     [kind |-> "cluster", replace |-> FALSE, list |-> <<>>],
     [kind |-> "rank", replace |-> FALSE, list |-> <<>>],
     [kind |-> "reorder", replace |-> FALSE,
      list |-> Reverse(Take(StoredIds(windowDate), MAX_REORDER))]}

\* the local `ranked` (rank/route.ts:184-259) of a run on the tables db
RankedIn(db, windowDate, order) ==
    LET bounds       == toWindowBoundsUtc(windowDate)
        rows         == SelectSeq(db.cluster_articles,
                                  LAMBDA m : m.cluster_id \in Range(order.ids))
        memberships  == IF order.ascending THEN rows ELSE Reverse(rows)
        articlesById == ArticlesById(memberships, bounds)
    IN  rankClusters(ClusterRows(db.story_clusters, order.ids), memberships,
                     articlesById, SourceNameById(articlesById),
                     bounds.recencyStart, bounds.end)

\* the tables after a clustering run on each window
ClusteredTables(table, orderA, orderB) ==
    LET clustersA == buildWorkingClusters(ToClusterArticles(table, orderA))
        clustersB == buildWorkingClusters(ToClusterArticles(table, orderB))
        afterA    == InsertMemberships(
                        InsertClusters(EmptyTables, WindowA, clustersA, 1),
                        MembershipsOf(clustersA, [i \in DOMAIN clustersA |-> i], 1))
    IN  InsertMemberships(
            InsertClusters(afterA, WindowB, clustersB, 1 + Len(clustersA)),
            MembershipsOf(clustersB,
                          [i \in DOMAIN clustersB |-> Len(clustersA) + i], 1))

\* the tables are empty, or hold the result of one clustering run and one
\* ranking run on each window
RunsTables ==
    \E table \in {ArticleTable(Len(Newsroom))} :
        \/ /\ dataset = [articles |-> table, cluster_articles |-> <<>>,
                         feed_sources |-> FeedSources]
           /\ story_clusters = <<>>
           /\ cluster_candidates = {}
           /\ nextRowId = 1
        \/ \E orderA \in ArticleOrdersOf(table, WindowA),
              orderB \in ArticleOrdersOf(table, WindowB) :
            \E db \in {ClusteredTables(table, orderA, orderB)} :
                /\ dataset = [articles |-> table,
                              cluster_articles |-> db.cluster_articles,
                              feed_sources |-> FeedSources]
                /\ \E rankedA \in
                        {RankedIn(db, WindowA,
                                  [ascending |-> TRUE,
                                   ids |-> Ascending(
                                        {c \in DOMAIN db.story_clusters :
                                            db.story_clusters[c].window_date = WindowA})])},
                      rankedB \in
                        {RankedIn(db, WindowB,
                                  [ascending |-> TRUE,
                                   ids |-> Ascending(
                                        {c \in DOMAIN db.story_clusters :
                                            db.story_clusters[c].window_date = WindowB})])} :
                    \E firstId \in {1 + Cardinality(DOMAIN db.story_clusters)} :
                        /\ story_clusters =
                                UpsertScores(UpsertScores(db.story_clusters, WindowA,
                                                          rankedA),
                                             WindowB, rankedB)
                        /\ cluster_candidates =
                                CandidateRows(WindowA, Take(rankedA, TOP_LIMIT), firstId)
                                    \cup CandidateRows(WindowB, Take(rankedB, TOP_LIMIT),
                                                       firstId + Len(Take(rankedA, TOP_LIMIT)))
                        /\ nextRowId = firstId + Len(Take(rankedA, TOP_LIMIT))
                                            + Len(Take(rankedB, TOP_LIMIT))

\* run 1 is on the first window, run 2 on the same window or on the next
InitRuns ==
    /\ RunsTables
    /\ ranked = <<>>
    /\ response = <<>>
    /\ \E first \in RunRequests(WindowA), windowDate \in {WindowA, WindowB} :
        \E second \in RunRequests(windowDate) :
            runs = <<StartedRun(first.kind, WindowA, first.replace, first.list),
                     StartedRun(second.kind, windowDate, second.replace, second.list)>>
    /\ daily_briefs = <<>>
    /\ brief_stories = <<>>
    /\ nightly = <<>>
    /\ drafting = <<>>
    /\ ops = 0
    /\ articles = <<>>
    /\ cursor = 1
    /\ clusters = <<>>
    /\ best = NoBest

NextRuns ==
    \/ ClusterReadPrevious
    \/ ClusterClear
    \/ ClusterReadArticles
    \/ ClusterInsert
    \/ ClusterInsertMemberships
    \/ RankReadClusters
    \/ RankDeleteUnchecked
    \/ RankReadMemberships
    \/ RankReadArticles
    \/ RankUpsertScores
    \/ RankClearCandidates
    \/ RankInsertCandidates
    \/ ReorderLoad
    \/ ReorderUpdate
    \/ RunFails

SpecRuns == InitRuns /\ [][NextRuns]_vars

(***************************************************************************)
(* Properties of the Ranker (checked under Spec).                          *)
(***************************************************************************)
\* the last request was a ranking run of windowDate that reported success
RankSucceeded(windowDate) ==
    /\ response # <<>>
    /\ response.op = "rank"
    /\ response.status = 200
    /\ response.windowDate = windowDate

\* the signals of a cluster, recomputed from the tables as sets
MembersOf(c) ==
    {dataset.cluster_articles[i].article_id :
        i \in {j \in DOMAIN dataset.cluster_articles :
                    dataset.cluster_articles[j].cluster_id = c}}

InWindowMembers(c, windowDate) ==
    {a \in MembersOf(c) \cap DOMAIN dataset.articles :
        /\ ~IsNull(dataset.articles[a].published_at)
        /\ Val(dataset.articles[a].published_at) >= toWindowBoundsUtc(windowDate).start
        /\ Val(dataset.articles[a].published_at) < toWindowBoundsUtc(windowDate).end}

VolumeOf(c, windowDate) == Cardinality(InWindowMembers(c, windowDate))

BreadthOf(c, windowDate) ==
    Cardinality({publisherName(dataset.articles[a], dataset.feed_sources) :
                    a \in InWindowMembers(c, windowDate)})

RecencyOf(c, windowDate) ==
    Cardinality({a \in InWindowMembers(c, windowDate) :
                    Val(dataset.articles[a].published_at)
                        >= toWindowBoundsUtc(windowDate).end - RECENCY_HOURS})

\* c must come before d: higher score, or equal score and higher volume
Outranks(c, d, windowDate) ==
    \/ story_clusters[c].score > story_clusters[d].score
    \/ /\ story_clusters[c].score = story_clusters[d].score
       /\ VolumeOf(c, windowDate) > VolumeOf(d, windowDate)

C6_Signals ==
    \A windowDate \in WindowDates :
        RankSucceeded(windowDate) =>
            /\ {ranked[i].clusterId : i \in DOMAIN ranked} = ClustersOf(windowDate)
            /\ Len(ranked) = Cardinality(ClustersOf(windowDate))
            /\ \A i \in DOMAIN ranked :
                LET c == ranked[i].clusterId
                IN  /\ ranked[i].volume = VolumeOf(c, windowDate)
                    /\ ranked[i].breadth = BreadthOf(c, windowDate)
                    /\ ranked[i].recency = RecencyOf(c, windowDate)
                    /\ ranked[i].score =
                        6 * BreadthOf(c, windowDate) + 2 * VolumeOf(c, windowDate)
                            + RecencyOf(c, windowDate)
            /\ \A r \in DOMAIN response.body.top :
                /\ response.body.top[r].volume = ranked[r].volume
                /\ response.body.top[r].breadth = ranked[r].breadth
                /\ response.body.top[r].recency = ranked[r].recency
                /\ response.body.top[r].score = ranked[r].score

\* a run over clusters with a member outside the window, a member published
\* exactly RECENCY_HOURS before the end and two spellings of one publisher
C6_Witness ==
    /\ RankSucceeded(WindowA)
    /\ \E i \in DOMAIN ranked :
        ranked[i].volume < Cardinality(MembersOf(ranked[i].clusterId))
    /\ \E i \in DOMAIN ranked :
        /\ ranked[i].recency = 1
        /\ \E a \in MembersOf(ranked[i].clusterId) :
            dataset.articles[a].published_at =
                <<toWindowBoundsUtc(WindowA).end - RECENCY_HOURS>>
    /\ \E i \in DOMAIN ranked : ranked[i].breadth < ranked[i].volume

\* the cluster-to-rank assignment of a window
RankAssignment(windowDate) ==
    {<<row.cluster_id, row.rank>> : row \in CandidatesOf(windowDate)}

ScoresOf(windowDate) ==
    [c \in ClustersOf(windowDate) |-> story_clusters[c].score]

\* C7: a successful ranking run on a window whose candidates and scores stem
\* from an earlier successful run over the same clusters, memberships and
\* articles leaves the scores and the cluster-to-rank assignment as they were.
C7_Step ==
    \A windowDate \in WindowDates :
        (/\ ops' = ops + 1
         /\ response'.op = "rank"
         /\ response'.status = 200
         /\ response'.windowDate = windowDate
         /\ CandidatesOf(windowDate) # {}) =>
            /\ RankAssignment(windowDate)' = RankAssignment(windowDate)
            /\ ScoresOf(windowDate)' = ScoresOf(windowDate)

C7_Deterministic == [][C7_Step]_vars

\* C8: a ranking run on a window without clusters whose read of the clusters
\* succeeded reports success with clustersConsidered = 0, candidatesSaved = 0
\* and an empty top list, and the window has no candidate afterwards.
C8_EmptyWindow ==
    \A windowDate \in WindowDates :
        (/\ response # <<>>
         /\ response.op = "rank"
         /\ response.windowDate = windowDate
         /\ response.error # "Failed to load clusters"
         /\ ClustersOf(windowDate) = {}) =>
            /\ response.status = 200
            /\ response.body.clustersConsidered = 0
            /\ response.body.candidatesSaved = 0
            /\ response.body.top = <<>>
            /\ CandidatesOf(windowDate) = {}

C8_Witness ==
    /\ ClustersOf(WindowA) = {}
    /\ RankSucceeded(WindowA)
    /\ ops = 2
    /\ CandidatesOf(WindowB) # {}

\* C25: a ranking run that succeeds leaves every cluster with its window
\* date, writes to every cluster of its window, candidate or not, the score
\* it computed for that cluster, and leaves the clusters of other windows as
\* they were.
C25_Step ==
    \A windowDate \in WindowDates :
        (ops' # ops /\ RankSucceeded(windowDate)') =>
            /\ DOMAIN story_clusters' = DOMAIN story_clusters
            /\ \A c \in DOMAIN story_clusters :
                /\ story_clusters'[c].window_date = story_clusters[c].window_date
                /\ story_clusters[c].window_date # windowDate =>
                        story_clusters'[c] = story_clusters[c]
                /\ story_clusters[c].window_date = windowDate =>
                    /\ \E i \in DOMAIN ranked' :
                        /\ ranked'[i].clusterId = c
                        /\ story_clusters'[c].score = ranked'[i].score
                    /\ story_clusters'[c].score =
                        6 * BreadthOf(c, windowDate) + 2 * VolumeOf(c, windowDate)
                            + RecencyOf(c, windowDate)

C25_ScoresWritten == [][C25_Step]_vars

\* more clusters than candidates, and a cluster outside the candidate list
\* whose score is no longer the member count the clustering run gave it
C25_Witness ==
    /\ RankSucceeded(WindowA)
    /\ Cardinality(ClustersOf(WindowA)) > TOP_LIMIT
    /\ \E c \in ClustersOf(WindowA) :
        /\ \A row \in CandidatesOf(WindowA) : row.cluster_id # c
        /\ story_clusters[c].score # 2 * Cardinality(MembersOf(c))

\* the sum of the counts of a list of publisher entries
RECURSIVE CountSum(_)
CountSum(entries) ==
    IF entries = <<>> THEN 0 ELSE Head(entries).count + CountSum(Tail(entries))

\* C28: for every cluster the Ranker ranked, 0 <= recency <= volume,
\* breadth <= volume, breadth = 0 exactly when volume = 0, the publisher
\* counts add up to volume, and volume <= score <= 4.5 * volume (the score
\* is kept in halves).
C28_SignalBounds ==
    \A i \in DOMAIN ranked :
        /\ 0 <= ranked[i].recency
        /\ ranked[i].recency <= ranked[i].volume
        /\ ranked[i].breadth <= ranked[i].volume
        /\ ranked[i].breadth = 0 <=> ranked[i].volume = 0
        /\ CountSum(ranked[i].publisherCounts) = ranked[i].volume
        /\ Len(ranked[i].publisherCounts) = ranked[i].breadth
        /\ 2 * ranked[i].volume <= ranked[i].score
        /\ ranked[i].score <= 9 * ranked[i].volume

\* one run ranks a cluster without an article of the window, a cluster whose
\* articles are all recent and a cluster with two articles of one publisher
C28_Witness ==
    /\ \E i \in DOMAIN ranked : ranked[i].volume = 0
    /\ \E i \in DOMAIN ranked : ranked[i].volume > 0 /\ ranked[i].recency = ranked[i].volume
    /\ \E i \in DOMAIN ranked : ranked[i].breadth < ranked[i].volume
    /\ \E i \in DOMAIN ranked : ranked[i].score = 9 * ranked[i].volume /\ ranked[i].volume > 0

(***************************************************************************)
(* Properties of the reorder route (checked under SpecReorder).            *)
(***************************************************************************)
\* a candidate row without its rank
Unranked(row) ==
    [id |-> row.id, window_date |-> row.window_date, cluster_id |-> row.cluster_id]

ClusterIdsOf(windowDate) == {row.cluster_id : row \in CandidatesOf(windowDate)}

\* C9: a reorder request, accepted or rejected, leaves the set of cluster ids
\* of every window's candidates, the candidate rows apart from their ranks,
\* the number of rows and every cluster's score as they were.
C9_Step ==
    (ops' = ops + 1 /\ response'.op = "reorder") =>
        /\ \A windowDate \in WindowDates :
                ClusterIdsOf(windowDate)' = ClusterIdsOf(windowDate)
        /\ {Unranked(row) : row \in cluster_candidates'}
                = {Unranked(row) : row \in cluster_candidates}
        /\ Cardinality(cluster_candidates') = Cardinality(cluster_candidates)
        /\ story_clusters' = story_clusters
        /\ dataset' = dataset

C9_FrameEffect == [][C9_Step]_vars

\* an accepted reorder after which a candidate of the first window has
\* another rank than the ranking run gave it (the run numbered the rows of
\* the first window by rank)
C9_Witness ==
    /\ response.op = "reorder"
    /\ response.status = 200
    /\ response.windowDate = WindowA
    /\ \E row \in CandidatesOf(WindowA) : row.rank # row.id
    /\ Cardinality(CandidatesOf(WindowA)) > MAX_REORDER

\* C10: a reorder request whose list is not as long as the number of
\* candidates stored for the window (1..TOP_LIMIT of them) is rejected with
\* status 400, unless a storage call fails, and leaves every rank as it was.
C10_Step ==
    \A rawDate \in ReorderDates :
        \A orderedClusterIds \in Submissions(Trim(rawDate)) :
            LET stored == Cardinality(CandidatesOf(Trim(rawDate)))
            IN  (/\ Reorder(rawDate, orderedClusterIds)
                 /\ stored \in 1..TOP_LIMIT
                 /\ Len(orderedClusterIds) # stored
                 /\ response'.status # 500) =>
                    /\ response'.status = 400
                    /\ cluster_candidates' = cluster_candidates

C10_LengthMismatchRejected == [][C10_Step]_vars

\* the cluster ids stored for a window, as the route compares them
StoredIdSet(windowDate) == {IdText(c) : c \in ClusterIdsOf(windowDate)}

\* C11: a reorder request whose list is not a list of exactly the cluster ids
\* stored for the window (an id that is not stored, a stored id missing, or
\* an id twice) is rejected with status 400, unless a storage call fails,
\* and leaves every rank as it was.
C11_Step ==
    \A rawDate \in ReorderDates :
        \A orderedClusterIds \in Submissions(Trim(rawDate)) :
            (/\ Reorder(rawDate, orderedClusterIds)
             /\ CandidatesOf(Trim(rawDate)) # {}
             /\ \/ Range(orderedClusterIds) # StoredIdSet(Trim(rawDate))
                \/ Cardinality(Range(orderedClusterIds)) # Len(orderedClusterIds)
             /\ response'.status # 500) =>
                /\ response'.status = 400
                /\ cluster_candidates' = cluster_candidates

C11_SetMismatchRejected == [][C11_Step]_vars

\* the rank of every candidate of the window is the position of its cluster
RanksFollow(table, windowDate, orderedClusterIds) ==
    \A row \in {r \in table : r.window_date = windowDate} :
        \E index \in DOMAIN orderedClusterIds :
            /\ orderedClusterIds[index] = IdText(row.cluster_id)
            /\ row.rank = index

\* C12: a reorder request whose list is a permutation of exactly the cluster
\* ids stored for the window (1..TOP_LIMIT of them) succeeds, unless a storage
\* call fails, and afterwards each candidate's rank is the position of its
\* cluster in the list.
C12_Step ==
    \A rawDate \in ReorderDates :
        \A orderedClusterIds \in Submissions(Trim(rawDate)) :
            (/\ Reorder(rawDate, orderedClusterIds)
             /\ Cardinality(CandidatesOf(Trim(rawDate))) \in 1..TOP_LIMIT
             /\ Range(orderedClusterIds) = StoredIdSet(Trim(rawDate))
             /\ Len(orderedClusterIds) = Cardinality(CandidatesOf(Trim(rawDate)))
             /\ response'.status # 500) =>
                /\ response'.status = 200
                /\ RanksFollow(cluster_candidates', Trim(rawDate), orderedClusterIds)

C12_PermutationAccepted == [][C12_Step]_vars

\* C13: the ranks of the candidates of every window are pairwise distinct and
\* are exactly 1..k for its k candidates.
C13_DenseRanks ==
    \A windowDate \in WindowDates :
        /\ {row.rank : row \in CandidatesOf(windowDate)}
                = 1..Cardinality(CandidatesOf(windowDate))
        /\ \A row1, row2 \in CandidatesOf(windowDate) :
                row1.rank = row2.rank => row1 = row2

(***************************************************************************)
(* Properties of the three routes together (checked under SpecPipeline).   *)
(***************************************************************************)
\* the three persisted tables the routes write
Persisted == <<story_clusters, dataset.cluster_articles, cluster_candidates>>

\* C14: a request that the cluster, rank or reorder route rejects as invalid
\* (status 400: a malformed window date, an empty, oversized or non-unique
\* reorder list, a reorder list of the wrong size or of the wrong ids) leaves
\* the clusters, the memberships and the candidates exactly as they were.
C14_Step ==
    (ops' # ops /\ response'.status = 400) => UNCHANGED Persisted

C14_RejectedBeforeWrite == [][C14_Step]_vars

C14_Witness ==
    /\ response # <<>>
    /\ response.op = "reorder"
    /\ response.status = 400
    /\ response.error = "Expected 2 cluster ids."
    /\ Cardinality(CandidatesOf(WindowA)) = 2
    /\ dataset.cluster_articles # <<>>

\* C15: a run in which a storage call failed, or returned fewer rows than
\* the run needs, does not report success: the failures the routes name end
\* in status 500, and so do a ranking run on a window without clusters whose
\* delete of the candidates failed and a clustering run whose insert of the
\* clusters returned fewer ids than clusters.
C15_Step ==
    /\ (\/ ClusterReplaceError \/ ClusterArticlesError \/ ClusterInsertError
        \/ ClusterMembershipError \/ RankReadError \/ RankWriteError
        \/ ReorderLoadErrorRequest \/ ReorderUpdateErrorRequest) =>
            response'.status = 500
    /\ \A windowDate \in WindowDates :
            RankEmptyRun(windowDate, TRUE) => response'.status = 500
    /\ \A windowDate \in WindowDates, replace \in BOOLEAN :
        \A order \in ArticleOrders(windowDate) \ {<<>>} :
            \A returned \in ReturnedCounts(order) :
                (/\ ClusterRun(windowDate, replace, order, returned)
                 /\ returned < response'.body.clustersCreated) =>
                    response'.status = 500

C15_FailureSurfaces == [][C15_Step]_vars

\* C16: a clustering run that fails to read the articles of its window
\* leaves the clusters stored before the run in place.
C16_Step ==
    (/\ ops' # ops
     /\ response'.op = "cluster"
     /\ response'.error = "Failed to load articles for clustering") =>
        story_clusters' = story_clusters

C16_ReadBeforeDelete == [][C16_Step]_vars

\* the articles published in a window
PublishedIn(windowDate) ==
    {id \in DOMAIN dataset.articles :
        /\ ~IsNull(dataset.articles[id].published_at)
        /\ Val(dataset.articles[id].published_at) >= toWindowBoundsUtc(windowDate).start
        /\ Val(dataset.articles[id].published_at) < toWindowBoundsUtc(windowDate).end}

\* the stored clusters of a window without their ids: members, label, score
PartitionOf(windowDate) ==
    {[members |-> MembersOf(c), label |-> story_clusters[c].label,
      score |-> story_clusters[c].score] : c \in ClustersOf(windowDate)}

ClusterSucceeded(windowDate) ==
    /\ response # <<>>
    /\ response.op = "cluster"
    /\ response.status = 200
    /\ response.windowDate = windowDate
    /\ response.body.replace

\* C17: after a successful clustering run with replace = true the clusters of
\* the window are those the run created and no others, every article
\* published in the window is a member of exactly one of them, and a second
\* such run right after the first, on the same articles, stores the same
\* partition with the same labels and scores.
C17_Step ==
    \A windowDate \in WindowDates :
        (ops' # ops /\ ClusterSucceeded(windowDate)') =>
            /\ Cardinality(ClustersOf(windowDate)') = response'.body.clustersCreated
            /\ \A c \in ClustersOf(windowDate)' : c >= nextRowId
            /\ \A id \in PublishedIn(windowDate) :
                    Cardinality({c \in ClustersOf(windowDate)' : id \in MembersOf(c)'}) = 1
            /\ ClusterSucceeded(windowDate) => PartitionOf(windowDate)' = PartitionOf(windowDate)

C17_ReplaceIdempotent == [][C17_Step]_vars

\* every candidate refers to a stored cluster of its own window
C27_Refs ==
    \A row \in cluster_candidates :
        /\ row.cluster_id \in DOMAIN story_clusters
        /\ story_clusters[row.cluster_id].window_date = row.window_date

\* a clustering run with replace = true that succeeds leaves its window
\* without candidates, and only a ranking run of a window gives it candidates
C27_Step ==
    \A windowDate \in WindowDates :
        /\ (ops' # ops /\ ClusterSucceeded(windowDate)') => CandidatesOf(windowDate)' = {}
        /\ (CandidatesOf(windowDate) = {} /\ CandidatesOf(windowDate)' # {}) =>
                RankSucceeded(windowDate)'

\* C27: in every state reached by clustering runs, ranking runs and reorder
\* calls made one after the other, every candidate refers to a stored cluster
\* whose window date is the candidate's; after a clustering run with
\* replace = true the window has no candidates until a ranking run of it.
C27_CandidateRefs == []C27_Refs /\ [][C27_Step]_vars

C27_Witness ==
    /\ ClusterSucceeded(WindowA)
    /\ response.body.replacedClusters > 0
    /\ ClustersOf(WindowA) # {}
    /\ CandidatesOf(WindowA) = {}
    /\ nextRowId > 1 + Cardinality(ClustersOf(WindowA))

(***************************************************************************)
(* Properties of getRepresentativeArticles (checked under                  *)
(* SpecRepresentative).                                                    *)
(***************************************************************************)
Answered ==
    /\ response # <<>>
    /\ response.op = "representative"
    /\ response.status = 200

\* the resolved publisher of a stored article
PublisherOf(a) == memberPublisherName(dataset.articles[a], dataset.feed_sources)

PublishersOfCluster(clusterId) == {PublisherOf(a) : a \in ArticleIdsOfCluster(clusterId)}

Smaller(x, y) == IF x < y THEN x ELSE y

\* C18: for a cluster of m articles with p distinct resolved publishers and
\* the clamped limit L the call returns min(L, m) different articles of the
\* cluster, which cover min(L, p) publishers; two of them share a publisher
\* only when every publisher of the cluster is among those returned.
C18_Diversity ==
    Answered =>
        LET body       == response.body
            members    == ArticleIdsOfCluster(response.clusterId)
            publishers == PublishersOfCluster(response.clusterId)
            limit      == clampMax(response.max)
            returned   == {body[i].publisher : i \in DOMAIN body}
        IN  /\ Len(body) = Smaller(limit, Cardinality(members))
            /\ \A i \in DOMAIN body : body[i].url \in members
            /\ \A i, j \in DOMAIN body : i # j => body[i].url # body[j].url
            /\ Cardinality(returned) = Smaller(limit, Cardinality(publishers))
            /\ (\E i, j \in DOMAIN body :
                    i # j /\ body[i].publisher = body[j].publisher) =>
                        returned = publishers

C18_Witness ==
    /\ Answered
    /\ clampMax(response.max) = 4
    /\ Len(response.body) = 4
    /\ Cardinality({response.body[i].publisher : i \in DOMAIN response.body}) = 2
    /\ Cardinality(ArticleIdsOfCluster(response.clusterId)) > 4

\* the instant an article was published, -1 when it has none
TimeOf(a) ==
    IF IsNull(dataset.articles[a].published_at) THEN -1
    ELSE Val(dataset.articles[a].published_at)

\* the entries from..to of a list of articles are in descending order of
\* their instants, those without one last
Descending(body, from, to) ==
    \A i \in from..(to - 1) : TimeOf(body[i].url) >= TimeOf(body[i + 1].url)

\* C19: the articles returned are the picks of the diversity pass, one for
\* each publisher, most recently published first and those without a
\* timestamp last, then the picks of the fill pass in the same order; the
\* pick of a publisher is the article of that publisher published last.
C19_PassOrder ==
    Answered =>
        LET body    == response.body
            members == ArticleIdsOfCluster(response.clusterId)
            first   == Cardinality({body[i].publisher : i \in DOMAIN body})
        IN  /\ \A i, j \in 1..first : i # j => body[i].publisher # body[j].publisher
            /\ Descending(body, 1, first)
            /\ Descending(body, first + 1, Len(body))
            /\ \A i \in 1..first :
                \A a \in members :
                    PublisherOf(a) = body[i].publisher =>
                        TimeOf(body[i].url) >= TimeOf(a)

\* C20: the limit is 6 for a `max` that is not finite or is 6 or more, 3 for
\* a `max` below 3, the whole part of `max` in between, in every case one of
\* 3..6; the call returns no more articles than the limit.
C20_ClampedLimit ==
    Answered =>
        LET max   == response.max
            limit == clampMax(response.max)
        IN  /\ limit \in CLAMP_MIN..CLAMP_MAX
            /\ max.kind # "finite" => limit = 6
            /\ (max.kind = "finite" /\ max.halves >= 12) => limit = 6
            /\ (max.kind = "finite" /\ max.halves < 6) => limit = 3
            /\ (max.kind = "finite" /\ max.halves \in 6..12) =>
                    2 * limit \in {max.halves, max.halves - 1}
            /\ Len(response.body) <= limit

C20_Witness ==
    /\ Answered
    /\ response.max = Finite(2)
    /\ Len(response.body) = 3
    /\ Cardinality(ArticleIdsOfCluster(response.clusterId)) > 3

(***************************************************************************)
(* Properties of cosineSimilarity (checked under SpecSimilarity).          *)
(***************************************************************************)
\* C24: the similarity of two vectors is the same in both orders, the
\* similarity of a vector that is not empty with itself is 1.0, and the
\* similarity is exactly 0 when one of the two vectors is empty.
C24_Cosine ==
    (response # <<>> /\ response.op = "similarity") =>
        LET a == articles[1].vector
            b == articles[2].vector
        IN  /\ response.ab = response.ba
            /\ DOMAIN a # {} => IsOne(response.self)
            /\ (DOMAIN a = {} \/ DOMAIN b = {}) =>
                    response.ab.dot = 0 /\ response.ab.norm = 1

C24_Witness ==
    /\ response # <<>>
    /\ response.op = "similarity"
    /\ DOMAIN articles[1].vector # DOMAIN articles[2].vector
    /\ response.ab.dot > 0
    /\ ~IsOne(response.ab)
    /\ IsOne(response.self)

(***************************************************************************)
(* Properties of chooseClusterLabel (checked under SpecLabel).             *)
(***************************************************************************)
\* the similarity of the member at `index` to the sum of the cluster
MemberScore(cluster, index) ==
    cosineSimilarity(cluster.members[index].vector, cluster.vectorSum)

\* the first member no other member is more similar to the sum than
FirstMaximal(cluster) ==
    Min({i \in DOMAIN cluster.members :
            \A j \in DOMAIN cluster.members :
                SimAtLeast(MemberScore(cluster, i), MemberScore(cluster, j))})

\* C26: the label of a cluster with members is the title of the first
\* member, in member order, whose vector is as similar to the sum of the
\* cluster as any member's (the first member when all vectors are empty);
\* the label is "Untitled cluster" only for the cluster without members.
C26_Label ==
    (response # <<>> /\ response.op = "label") =>
        LET cluster == clusters[response.index]
        IN  /\ cluster.members # <<>> =>
                    response.label = cluster.members[FirstMaximal(cluster)].title
            /\ response.label = "Untitled cluster" <=> cluster.members = <<>>

\* a cluster whose second member is the first of two equally similar best
\* ones
C26_Witness ==
    /\ response # <<>>
    /\ response.op = "label"
    /\ LET cluster == clusters[response.index]
       IN  /\ Len(cluster.members) >= 3
           /\ FirstMaximal(cluster) = 2
           /\ \E j \in 3..Len(cluster.members) :
                SimAtLeast(MemberScore(cluster, j), MemberScore(cluster, 2))
           /\ response.label = cluster.members[2].title

(***************************************************************************)
(* Properties of generateDraftFromTopClusters (checked under SpecDraft).   *)
(***************************************************************************)
\* the brief of a date is published
Published(windowDate) ==
    /\ windowDate \in DOMAIN daily_briefs
    /\ daily_briefs[windowDate].status = "published"

\* the stories of a brief
StoriesOf(table, briefId) ==
    [key \in {k \in DOMAIN table : k[1] = briefId} |-> table[key]]

\* the messages of the storage calls that can fail once the two checks passed
DraftStorageFailures ==
    {"Failed to check existing brief status", "Failed to load ranked candidates",
     "Failed to load story clusters", "Failed to load cluster memberships",
     "Failed to load cluster article details", "Failed to load source names",
     "Failed to create or update draft brief",
     "Failed to upsert generated brief stories"}

\* C29: a generate-draft request for a date whose brief is published, or whose
\* window has fewer than REQUIRED_STORY_COUNT candidates, fails and leaves
\* briefs and stories as they were; no request changes a published brief or
\* its stories; any other request either fails on a storage call or leaves
\* the brief of the date a draft whose story at position i (1..5) is the
\* cluster of a candidate holding the i-th lowest rank of the window.
C29_Step ==
    \A windowDate \in WindowDates :
        (ops' # ops /\ response'.op = "draft" /\ response'.windowDate = windowDate) =>
            LET rows == CandidatesOf(windowDate)
            IN  /\ (Published(windowDate) \/ Cardinality(rows) < REQUIRED_STORY_COUNT)
                        => /\ response'.status = 500
                           /\ UNCHANGED <<daily_briefs, brief_stories>>
                /\ \A date \in DOMAIN daily_briefs :
                        Published(date)
                            => /\ daily_briefs'[date] = daily_briefs[date]
                               /\ StoriesOf(brief_stories', daily_briefs[date].id)
                                    = StoriesOf(brief_stories, daily_briefs[date].id)
                /\ (~Published(windowDate) /\ Cardinality(rows) >= REQUIRED_STORY_COUNT)
                        => \/ /\ response'.status = 500
                              /\ response'.error \in DraftStorageFailures
                           \/ /\ response'.status = 200
                              /\ windowDate \in DOMAIN daily_briefs'
                              /\ daily_briefs'[windowDate].status = "draft"
                              /\ response'.body.briefId = daily_briefs'[windowDate].id
                              /\ \A i \in 1..REQUIRED_STORY_COUNT :
                                    LET key == <<daily_briefs'[windowDate].id, i>>
                                    IN  /\ key \in DOMAIN brief_stories'
                                        /\ \E row \in rows :
                                            /\ brief_stories'[key].cluster_id
                                                    = <<row.cluster_id>>
                                            /\ row.rank = ByRank(rows)[i].rank

C29_DraftFromTopCandidates == [][C29_Step]_vars

\* a draft was generated after a reorder: its stories are not in the order of
\* the scores
C29_Witness ==
    /\ response # <<>>
    /\ response.op = "draft"
    /\ response.status = 200
    /\ \E i \in 1..(REQUIRED_STORY_COUNT - 1) :
        LET story(p) == brief_stories[<<response.body.briefId, p>>]
        IN  story_clusters[Val(story(i).cluster_id)].score
                < story_clusters[Val(story(i + 1).cluster_id)].score

(***************************************************************************)
(* Properties of the nightly pipeline (checked under SpecNightly).         *)
(***************************************************************************)
\* the steps that ran are the first ones of ingest, cluster, rank, draft, in
\* that order; every step before the last one returned; the run answered 500
\* with the message of the step that threw, or 200 after all four returned
C23_Order ==
    nightly # <<>> =>
        LET results == nightly.results
            count   == Len(results)
        IN  /\ count >= 1
            /\ count <= Len(NIGHTLY_STEPS)
            /\ \A i \in 1..count : results[i].step = NIGHTLY_STEPS[i]
            /\ \A i \in 1..(count - 1) : results[i].error = ""
            /\ results[count].error # ""
                    <=> /\ nightly.status = 500
                        /\ response.op = "nightly"
                        /\ response.status = 500
                        /\ response.error = results[count].error
                        /\ response.windowDate = nightly.windowDate
            /\ (results[count].error = "" /\ count = Len(NIGHTLY_STEPS))
                    <=> /\ nightly.status = 200
                        /\ response.op = "nightly"
                        /\ response.status = 200
            /\ nightly.status \in {0, 200, 500}

\* the number of steps of the nightly run that have run after this step
StepsRun == IF nightly' = <<>> THEN 0 ELSE Len(nightly'.results)

\* C23: the nightly run takes ingest, cluster (replace = true), rank and draft
\* in this order for one window date: the articles change only in the first
\* step, clusters and memberships only in the second and third, candidates
\* only in the second and third, briefs and stories only in the fourth; a
\* step runs only after the one before it returned; the first step that
\* throws ends the run with a 500 response and nothing is written after it;
\* the clustering step leaves none of the window's earlier clusters; no step
\* makes a brief published.
C23_Step ==
    /\ dataset.articles' # dataset.articles => StepsRun = 1
    /\ (story_clusters' # story_clusters
            \/ dataset.cluster_articles' # dataset.cluster_articles
            \/ cluster_candidates' # cluster_candidates) => StepsRun \in {2, 3}
    /\ DOMAIN story_clusters' # DOMAIN story_clusters => StepsRun = 2
    /\ (daily_briefs' # daily_briefs \/ brief_stories' # brief_stories) => StepsRun = 4
    /\ (nightly # <<>> /\ nightly.status # 0)
            => UNCHANGED <<story_clusters, cluster_candidates, dataset, daily_briefs,
                           brief_stories, nightly>>
    /\ (nightly # <<>> /\ nightly' # nightly)
            => /\ nightly'.windowDate = nightly.windowDate
               /\ Len(nightly'.results) = Len(nightly.results) + 1
    /\ (StepsRun = 2 /\ nightly' # nightly /\ nightly'.results[2].error = "")
            => ClustersOf(nightly.windowDate) \cap DOMAIN story_clusters' = {}
    /\ \A date \in DOMAIN daily_briefs' :
            daily_briefs'[date].status = "published"
                => /\ date \in DOMAIN daily_briefs
                   /\ daily_briefs[date] = daily_briefs'[date]

C23_NightlyOrder == []C23_Order /\ [][C23_Step]_vars

\* a run went through all four steps and left a draft with its stories
C23_Witness ==
    /\ nightly # <<>>
    /\ nightly.status = 200
    /\ Len(nightly.results) = Len(NIGHTLY_STEPS)
    /\ daily_briefs[nightly.windowDate].status = "draft"
    /\ <<daily_briefs[nightly.windowDate].id, REQUIRED_STORY_COUNT>>
            \in DOMAIN brief_stories

(***************************************************************************)
(* Properties of draftBriefWithAi (checked under SpecDrafting).            *)
(***************************************************************************)
\* the stories the call loaded
LoadedStories == {key \in DOMAIN brief_stories : key[1] = drafting.briefId}

\* the stories held by the workers that await a draft
HeldBy(w) ==
    IF drafting.workers[w].at = "await" THEN {Val(drafting.workers[w].story).id} ELSE {}

Ids(list) == {list[i].id : i \in DOMAIN list}

\* while the call runs: every loaded story is in exactly one place (in the
\* queue, with one worker, or recorded with one status), draftStoryForBrief
\* was called at most once for a story, and a story has an ok status exactly
\* when it is among the drafted stories; once the call has returned 200 the
\* queue is empty, no worker holds a story, the statuses hold one entry per
\* loaded story by ascending position and the drafted stories are those of
\* the ok statuses, by ascending position
C30_Pool ==
    (drafting # <<>> /\ drafting.workers # <<>>) =>
        LET queued   == Ids(drafting.queue)
            recorded == {drafting.statuses[i].storyId : i \in DOMAIN drafting.statuses}
            held     == UNION {HeldBy(w) : w \in DOMAIN drafting.workers}
        IN  /\ \A i, j \in DOMAIN drafting.queue :
                    i # j => drafting.queue[i].id # drafting.queue[j].id
            /\ \A v, w \in DOMAIN drafting.workers :
                    v # w => HeldBy(v) \cap HeldBy(w) = {}
            /\ \A i, j \in DOMAIN drafting.statuses :
                    i # j => drafting.statuses[i].storyId # drafting.statuses[j].storyId
            /\ queued \cap held = {}
            /\ queued \cap recorded = {}
            /\ held \cap recorded = {}
            /\ queued \cup held \cup recorded = LoadedStories
            /\ \A i, j \in DOMAIN drafting.calls :
                    i # j => drafting.calls[i] # drafting.calls[j]
            /\ Range(drafting.calls) =
                    held \cup {drafting.statuses[i].storyId :
                                i \in {s \in DOMAIN drafting.statuses :
                                        drafting.statuses[s].message
                                            # "No cluster assigned."}}
            /\ Ids(drafting.updatedStories) =
                    {drafting.statuses[i].storyId :
                        i \in {s \in DOMAIN drafting.statuses : drafting.statuses[s].ok}}
            /\ Len(drafting.updatedStories) = Cardinality(Ids(drafting.updatedStories))
            /\ ~IsNull(drafting.answer) =>
                    LET answer == Val(drafting.answer)
                    IN  /\ answer.status = 200
                        /\ drafting.queue = <<>>
                        /\ held = {}
                        /\ Len(answer.statuses) = Cardinality(LoadedStories)
                        /\ {answer.statuses[i].storyId : i \in DOMAIN answer.statuses}
                                = LoadedStories
                        /\ \A i, j \in DOMAIN answer.statuses :
                                i < j => answer.statuses[i].position
                                            < answer.statuses[j].position
                        /\ \A i, j \in DOMAIN answer.stories :
                                i < j => answer.stories[i].position
                                            < answer.stories[j].position
                        /\ Ids(answer.stories) =
                                {answer.statuses[i].storyId :
                                    i \in {s \in DOMAIN answer.statuses :
                                            answer.statuses[s].ok}}
                        /\ Len(answer.stories) = Cardinality(Ids(answer.stories))

\* the call has answered
C30_Answered == drafting # <<>> /\ ~IsNull(drafting.answer)

\* C30: for every worker count and every order in which the awaited drafts
\* settle, each story of the brief is taken from the queue by exactly one
\* worker and drafted at most once, the call returns, and then the queue is
\* empty and the statuses hold exactly one entry per story, sorted by
\* position, with an ok entry exactly for the returned drafted stories.
C30_WorkerPool == []C30_Pool /\ <>C30_Answered

\* a call with more than one worker has returned some stories drafted, one
\* failed and one without cluster
C30_Witness ==
    /\ C30_Answered
    /\ Len(drafting.workers) > 1
    /\ Val(drafting.answer).status = 200
    /\ Val(drafting.answer).stories # <<>>
    /\ \E i, j \in DOMAIN Val(drafting.answer).statuses :
        /\ Val(drafting.answer).statuses[i].message = "No cluster assigned."
        /\ Val(drafting.answer).statuses[j].message \in DraftingErrors

(***************************************************************************)
(* Properties of runs served at the same time (checked under SpecRuns)     *)
(***************************************************************************)
\* the rows of a window without the generated identifiers: the clusters by
\* ascending id, each membership and candidate with the place of its cluster
Shape(rows) ==
    LET ids == Ascending(DOMAIN rows.story_clusters)
        place(c) == CHOOSE i \in DOMAIN ids : ids[i] = c
    IN  [clusters    |-> [i \in DOMAIN ids |-> rows.story_clusters[ids[i]]],
         memberships |-> [m \in DOMAIN rows.cluster_articles |->
                            [cluster    |-> place(rows.cluster_articles[m].cluster_id),
                             article_id |-> rows.cluster_articles[m].article_id]],
         candidates  |-> {[cluster |-> place(row.cluster_id), rank |-> row.rank] :
                            row \in rows.cluster_candidates},
         count       |-> Cardinality(rows.cluster_candidates)]

\* the rows a clustering run leaves in its window when it is the only run
AloneClustered(run) ==
    LET base == IF run.replace THEN ClearWindow(run.start, run.windowDate)
                ELSE run.start
    IN  IF run.locals = <<>> THEN {base}
        ELSE {WindowRowsOf(
                InsertMemberships(
                    InsertClusters(base, run.windowDate, workingClusters,
                                   run.locals.firstId),
                    MembershipsOf(workingClusters, run.locals.createdClusters, 1)),
                run.windowDate) :
              workingClusters \in
                {run.locals.workingClusters}
                    \cap {buildWorkingClusters(ToClusterArticles(dataset.articles, order)) :
                            order \in ArticleOrders(run.windowDate)}}

\* the rows a ranking run leaves in its window when it is the only run
AloneRanked(run) ==
    IF run.start.story_clusters = <<>>
    THEN {run.start, [run.start EXCEPT !.cluster_candidates = {}]}
    ELSE {[story_clusters     |-> UpsertScores(run.start.story_clusters,
                                               run.windowDate, rankedList),
           cluster_articles   |-> run.start.cluster_articles,
           cluster_candidates |-> CandidateRows(run.windowDate,
                                                Take(rankedList, TOP_LIMIT), 1)] :
          rankedList \in {RankedIn(run.start, run.windowDate, order) :
                            order \in RowOrders(DOMAIN run.start.story_clusters)}}

\* the rows a reorder leaves in its window when it is the only run
AloneReordered(run) ==
    {[run.start EXCEPT !.cluster_candidates =
            ApplyUpdates(run.start.cluster_candidates, run.list,
                         CandidateIdByCluster(topRows), Len(run.list))] :
     topRows \in TopRowsChoices(run.start.cluster_candidates, run.windowDate)}

AloneResults(run) ==
    CASE run.kind = "cluster" -> AloneClustered(run)
      [] run.kind = "rank"    -> AloneRanked(run)
      [] run.kind = "reorder" -> AloneReordered(run)

\* a run that returned while the other run was on another window left in its
\* window the rows it leaves when it runs alone
C21_Post ==
    \A r \in DOMAIN runs :
        (runs[r].status = 200 /\ runs[Peer(r)].windowDate # runs[r].windowDate)
            => \E rows \in AloneResults(runs[r]) :
                    Shape(WindowRows(runs[r].windowDate)) = Shape(rows)

\* a storage call of a run leaves the rows of every other window as they were
C21_Step ==
    \A r \in DOMAIN runs :
        runs'[r] # runs[r]
            => \A windowDate \in {WindowA, WindowB} \ {runs[r].windowDate} :
                    WindowRows(windowDate)' = WindowRows(windowDate)

\* C21: clustering, ranking and reorder runs on different windows are
\* independent: in every interleaving of the storage calls of a run on one
\* window with those of a run on another window, no call changes the
\* clusters, memberships, scores or candidates of the other window, and a run
\* that returned leaves in its window the rows it leaves when the two runs
\* execute one after the other
C21_WindowsIndependent == []C21_Post /\ [][C21_Step]_vars

\* two runs on different windows, each of which made storage calls while the
\* other was under way, have both returned
C21_Witness ==
    /\ runs # <<>>
    /\ runs[1].windowDate # runs[2].windowDate
    /\ \A r \in DOMAIN runs : runs[r].status = 200 /\ runs[r].overlapped
    /\ {runs[1].kind, runs[2].kind} = {"cluster", "rank"}
    /\ WindowRows(WindowA) # runs[1].start
    /\ WindowRows(WindowB) # runs[2].start

\* the articles run r gave a membership row
PlacedBy(r) ==
    {runs[r].locals.membershipRows[i].article_id :
        i \in DOMAIN runs[r].locals.membershipRows}

\* the persisted clusters of a window that hold an article
ClustersHolding(windowDate, article) ==
    {c \in ClustersOf(windowDate) :
        \E m \in DOMAIN dataset.cluster_articles :
            /\ dataset.cluster_articles[m].cluster_id = c
            /\ dataset.cluster_articles[m].article_id = article}

\* two clustering runs with replace on one window have both returned, and
\* each inserted its clusters after the delete of the other
BothReplaced ==
    /\ runs # <<>>
    /\ runs[1].windowDate = runs[2].windowDate
    /\ \A r \in DOMAIN runs :
        /\ runs[r].kind = "cluster"
        /\ runs[r].replace
        /\ runs[r].status = 200
        /\ runs[r].locals # <<>>
        /\ runs[r].locals.afterPeerClear

\* C22: two clustering runs with replace on the same window are not
\* coordinated: when the delete of each run comes before the insert of the
\* other and both runs report success, the window holds the clusters of both
\* runs, and every article both runs placed is a member of two or more
\* persisted clusters of the window
C22_BothRunsPersist ==
    BothReplaced
        => /\ \A r \in DOMAIN runs :
                \A i \in DOMAIN runs[r].locals.workingClusters :
                    runs[r].locals.firstId + i - 1 \in ClustersOf(runs[r].windowDate)
           /\ \A article \in PlacedBy(1) \cap PlacedBy(2) :
                Cardinality(ClustersHolding(runs[1].windowDate, article)) >= 2

\* both runs reported success and an article of the window is a member of a
\* cluster of the first run and of a cluster of the second
C22_Witness ==
    /\ BothReplaced
    /\ \E article \in PlacedBy(1) \cap PlacedBy(2) :
        \E c \in ClustersHolding(runs[1].windowDate, article),
           d \in ClustersHolding(runs[1].windowDate, article) :
            /\ c \in Range(runs[1].locals.createdClusters)
            /\ d \in Range(runs[2].locals.createdClusters)
            /\ c # d

====
